---- MODULE Spec2Model ----
(***************************************************************************)
(* Model of the media gallery's metadata stores (src/app/main.py) and of   *)
(* the category normalisation (src/app/config.py).                          *)
(*                                                                         *)
(* Strings are sequences of one-character strings, so that normalisation,  *)
(* stripping and replacement are computed character by character.          *)
(***************************************************************************)
EXTENDS Integers, Sequences, FiniteSets, TLC

VARIABLES
    categories,   \* CategoryStore.categories: the in-memory list of Category
    catDoc,       \* the file at CategoryStore.store_path
    catTmp,       \* the file at store_path + ".tmp" of the CategoryStore
    links,        \* LinkStore.links: the in-memory list of Link
    linkDoc,      \* the file at LinkStore.store_path
    linkTmp,      \* the file at store_path + ".tmp" of the LinkStore
    last,         \* the last completed call: the operation and the error raised
    thread,       \* the position and locals of each request thread inside a store call
    disk,         \* the file system around the media root
    request,      \* the last HTTP request and its response
    settings      \* config.settings as the process sees it

vars == <<categories, catDoc, catTmp, links, linkDoc, linkTmp, last, thread, disk,
          request, settings>>

\* what a store call run without interruption leaves alone
rest == <<thread, disk, request, settings>>

----------------------------------------------------------------------------
(* Python values *)

\* Python's None, as a string no input can spell
None == <<"None">>

\* truthiness of an optional string: None and "" are falsy
Truthy(s) == s # None /\ s # <<>>

\* str.isalnum on the characters of the model
IsAlnum(c) == c \in {"a", "b", "n", "M", "y", "T", "r", "i", "p"}

RECURSIVE LStrip(_)
LStrip(s) == IF s # <<>> /\ Head(s) = " " THEN LStrip(Tail(s)) ELSE s

RECURSIVE RStrip(_)
RStrip(s) ==
    IF s # <<>> /\ s[Len(s)] = " " THEN RStrip(SubSeq(s, 1, Len(s) - 1)) ELSE s

\* str.strip()
Strip(s) == RStrip(LStrip(s))

\* str.replace(" ", "_")
ReplaceSpaces(s) == [i \in 1..Len(s) |-> IF s[i] = " " THEN "_" ELSE s[i]]

KeptChar(c) == IsAlnum(c) \/ c \in {"-", "_", " "}

\* a normalisation that keeps the spaces
normalize_category_keep_spaces(category) ==
    IF category = None THEN None
    ELSE LET cleaned == Strip(SelectSeq(category, KeptChar))
         IN IF cleaned = <<>> THEN None ELSE cleaned

\* Settings.normalize_category
normalize_category(category) ==
    IF category = None THEN None
    ELSE LET cleaned == ReplaceSpaces(Strip(SelectSeq(category, KeptChar)))
         IN IF cleaned = <<>> THEN None ELSE cleaned

----------------------------------------------------------------------------
(* Files holding a JSON document *)

\* a file that does not exist
NoFile == [exists |-> FALSE, complete |-> FALSE, data |-> <<>>]

\* a file holding the whole JSON array of the records
Document(records) == [exists |-> TRUE, complete |-> TRUE, data |-> records]

\* a file opened for writing (truncated) whose JSON array is not yet whole
Partial == [exists |-> TRUE, complete |-> FALSE, data |-> <<>>]

\* outcomes of the input/output of one _persist call
IOOutcomes == {"ok", "write_failed"}

\* _persist writing the document in place
persist_in_place(records, doc, tmp, io) ==
    IF io = "ok"
    THEN [doc |-> Document(records), tmp |-> tmp]
    ELSE [doc |-> Partial, tmp |-> tmp]

\* CategoryStore._persist / LinkStore._persist, run without interruption:
\* dump the records to the temporary file, then rename it over the document
persist(records, doc, tmp, io) ==
    IF io = "ok"
    THEN [doc |-> Document(records), tmp |-> NoFile]
    ELSE [doc |-> doc, tmp |-> Partial]

----------------------------------------------------------------------------
(* CategoryStore *)

Category(name, path) == [name |-> name, path |-> path]

\* the least index of a set of indexes, 0 when it is empty: the record a
\* "for ... in" loop over the list reaches first
FirstIndex(indexes) ==
    IF indexes = {} THEN 0
    ELSE CHOOSE i \in indexes : \A j \in indexes : i <= j

\* CategoryStore.get_by_name: the index of the record, 0 for None
get_by_name(cats, name) ==
    LET normalized_name == normalize_category(name)
    IN IF normalized_name = None THEN 0
       ELSE FirstIndex({i \in 1..Len(cats) : cats[i].name = normalized_name})

\* CategoryStore.get_by_path: the index of the record, 0 for None
get_by_path(cats, path) ==
    LET normalized_path == normalize_category(path)
    IN IF path = None THEN 0
       ELSE FirstIndex({i \in 1..Len(cats) : cats[i].path = normalized_path})

\* add without the check of the path
add_no_path_check(cats, name, path) ==
    LET normalized_name == normalize_category(name)
        normalized_path ==
            normalize_category(IF Truthy(path) THEN path ELSE normalized_name)
    IN IF normalized_name = None
       THEN [error |-> "Invalid category name", categories |-> cats]
       ELSE IF normalized_path = None
       THEN [error |-> "Invalid category path", categories |-> cats]
       ELSE IF get_by_name(cats, normalized_name) # 0
       THEN [error |-> "Category name already exists", categories |-> cats]
       ELSE [error |-> "",
             categories |-> Append(cats, Category(normalized_name, normalized_path))]

\* add appending before the check of the path
add_append_first(cats, name, path) ==
    LET normalized_name == normalize_category(name)
        normalized_path ==
            normalize_category(IF Truthy(path) THEN path ELSE normalized_name)
        appended == Append(cats, Category(normalized_name, normalized_path))
    IN IF normalized_name = None
       THEN [error |-> "Invalid category name", categories |-> cats]
       ELSE IF normalized_path = None
       THEN [error |-> "Invalid category path", categories |-> cats]
       ELSE IF get_by_name(cats, normalized_name) # 0
       THEN [error |-> "Category name already exists", categories |-> cats]
       ELSE IF get_by_path(cats, normalized_path) # 0
       THEN [error |-> "Category path already exists", categories |-> appended]
       ELSE [error |-> "", categories |-> appended]

\* add inserting the new record at the front
add_prepend(cats, name, path) ==
    LET normalized_name == normalize_category(name)
        normalized_path ==
            normalize_category(IF Truthy(path) THEN path ELSE normalized_name)
    IN IF normalized_name = None
       THEN [error |-> "Invalid category name", categories |-> cats]
       ELSE IF normalized_path = None
       THEN [error |-> "Invalid category path", categories |-> cats]
       ELSE IF get_by_name(cats, normalized_name) # 0
       THEN [error |-> "Category name already exists", categories |-> cats]
       ELSE IF get_by_path(cats, normalized_path) # 0
       THEN [error |-> "Category path already exists", categories |-> cats]
       ELSE [error |-> "",
             categories |-> <<Category(normalized_name, normalized_path)>> \o cats]

\* CategoryStore.add up to its _persist: the error raised ("" for none) and
\* the list it leaves in memory
CategoryStore_add(cats, name, path) ==
    LET normalized_name == normalize_category(name)
        normalized_path ==
            normalize_category(IF Truthy(path) THEN path ELSE normalized_name)
    IN IF normalized_name = None
       THEN [error |-> "Invalid category name", categories |-> cats]
       ELSE IF normalized_path = None
       THEN [error |-> "Invalid category path", categories |-> cats]
       ELSE IF get_by_name(cats, normalized_name) # 0
       THEN [error |-> "Category name already exists", categories |-> cats]
       ELSE IF get_by_path(cats, normalized_path) # 0
       THEN [error |-> "Category path already exists", categories |-> cats]
       ELSE [error |-> "",
             categories |-> Append(cats, Category(normalized_name, normalized_path))]

\* list.pop(index)
Pop(records, index) ==
    SubSeq(records, 1, index - 1) \o SubSeq(records, index + 1, Len(records))

\* CategoryStore.delete up to its _persist
CategoryStore_delete(cats, name) ==
    LET normalized_name == normalize_category(name)
        index == FirstIndex({i \in 1..Len(cats) : cats[i].name = normalized_name})
    IN IF normalized_name = None \/ index = 0
       THEN [error |-> "Category not found", categories |-> cats]
       ELSE [error |-> "", categories |-> Pop(cats, index)]

\* the first error of update's loop over the records other than the target
RECURSIVE update_collision(_, _, _, _, _)
update_collision(cats, target, candidate_name, candidate_path, i) ==
    IF i > Len(cats) THEN ""
    ELSE IF i = target
    THEN update_collision(cats, target, candidate_name, candidate_path, i + 1)
    ELSE IF cats[i].name = candidate_name THEN "Category name already exists"
    ELSE IF cats[i].path = candidate_path THEN "Category path already exists"
    ELSE update_collision(cats, target, candidate_name, candidate_path, i + 1)

\* update comparing the candidate with every record, the target included
update_no_skip(cats, name, new_name, new_path) ==
    LET normalized_current == normalize_category(name)
        target == get_by_name(cats, normalized_current)
        candidate_name ==
            IF new_name # None THEN normalize_category(new_name) ELSE cats[target].name
        candidate_path ==
            IF new_path # None THEN normalize_category(new_path) ELSE cats[target].path
        collision == update_collision(cats, 0, candidate_name, candidate_path, 1)
    IN IF normalized_current = None \/ target = 0
       THEN [error |-> "Category not found", categories |-> cats]
       ELSE IF candidate_name = None \/ candidate_path = None
       THEN [error |-> "Invalid category name or path", categories |-> cats]
       ELSE IF collision # ""
       THEN [error |-> collision, categories |-> cats]
       ELSE [error |-> "",
             categories |->
                 [cats EXCEPT ![target] = Category(candidate_name, candidate_path)]]

\* CategoryStore.update up to its _persist
CategoryStore_update(cats, name, new_name, new_path) ==
    LET normalized_current == normalize_category(name)
        target == get_by_name(cats, normalized_current)
        candidate_name ==
            IF new_name # None THEN normalize_category(new_name) ELSE cats[target].name
        candidate_path ==
            IF new_path # None THEN normalize_category(new_path) ELSE cats[target].path
        collision == update_collision(cats, target, candidate_name, candidate_path, 1)
    IN IF normalized_current = None \/ target = 0
       THEN [error |-> "Category not found", categories |-> cats]
       ELSE IF candidate_name = None \/ candidate_path = None
       THEN [error |-> "Invalid category name or path", categories |-> cats]
       ELSE IF collision # ""
       THEN [error |-> collision, categories |-> cats]
       ELSE [error |-> "",
             categories |->
                 [cats EXCEPT ![target] = Category(candidate_name, candidate_path)]]

----------------------------------------------------------------------------
(* LinkStore *)

\* a URL string: surrounding white space, then scheme "://" netloc path
Url(pad, scheme, netloc, path) ==
    [pad |-> pad, scheme |-> scheme, netloc |-> netloc, path |-> path]

\* str.lower() on the schemes and file suffixes of the model
Lower(scheme) ==
    IF scheme = "HTTPS" THEN "https" ELSE IF scheme = ".JPG" THEN ".jpg" ELSE scheme

\* urlparse(url.strip()): the scheme comes out in lower case, the host as written
urlparse(url) ==
    [scheme |-> Lower(url.scheme), netloc |-> url.netloc, path |-> url.path]

\* ParseResult.geturl()
geturl(parsed) == Url(FALSE, parsed.scheme, parsed.netloc, parsed.path)

\* LinkStore._validate_url: the error raised ("" for none), the clean URL
\* and the domain
validate_url(url) ==
    LET parsed == urlparse(url)
    IN IF parsed.scheme # "https" \/ parsed.netloc = ""
       THEN [error |-> "Provide a valid https URL", url |-> None, domain |-> None]
       ELSE [error |-> "", url |-> geturl(parsed), domain |-> <<parsed.netloc>>]

\* _resolve_category taking an unknown category for no category
resolve_category_lenient(cats, category) ==
    LET normalized == normalize_category(category)
        by_name == get_by_name(cats, normalized)
        index == IF by_name # 0 THEN by_name ELSE get_by_path(cats, normalized)
    IN IF normalized = None \/ index = 0
       THEN [error |-> "", name |-> None, path |-> None]
       ELSE [error |-> "", name |-> cats[index].name, path |-> cats[index].path]

\* LinkStore._resolve_category: the error raised ("" for none), and the
\* name and path of the category record
resolve_category(cats, category) ==
    LET normalized == normalize_category(category)
        by_name == get_by_name(cats, normalized)
        index == IF by_name # 0 THEN by_name ELSE get_by_path(cats, normalized)
    IN IF normalized = None
       THEN [error |-> "", name |-> None, path |-> None]
       ELSE IF index = 0
       THEN [error |-> "Unknown category", name |-> None, path |-> None]
       ELSE [error |-> "", name |-> cats[index].name, path |-> cats[index].path]

Link(id, name, url, domain, category, category_path, added) ==
    [id |-> id, name |-> name, url |-> url, domain |-> domain,
     category |-> category, category_path |-> category_path, added |-> added]

\* add without the check of the URL against the stored links
add_no_duplicate_check(lnks, cats, url, name, category, token, utcnow) ==
    LET valid == validate_url(url)
        resolved == resolve_category(cats, category)
        link == Link(token,
                     IF Truthy(name) /\ Strip(name) # <<>>
                     THEN Strip(name) ELSE valid.domain,
                     valid.url, valid.domain, resolved.name, resolved.path, utcnow)
    IN IF valid.error # ""
       THEN [error |-> valid.error, links |-> lnks]
       ELSE IF resolved.error # ""
       THEN [error |-> resolved.error, links |-> lnks]
       ELSE [error |-> "", links |-> Append(lnks, link)]

\* LinkStore.add up to its _persist; token is the value of secrets.token_hex
\* and utcnow the value of datetime.utcnow()
LinkStore_add(lnks, cats, url, name, category, token, utcnow) ==
    LET valid == validate_url(url)
        resolved == resolve_category(cats, category)
        link == Link(token,
                     IF Truthy(name) /\ Strip(name) # <<>>
                     THEN Strip(name) ELSE valid.domain,
                     valid.url, valid.domain, resolved.name, resolved.path, utcnow)
    IN IF valid.error # ""
       THEN [error |-> valid.error, links |-> lnks]
       ELSE IF resolved.error # ""
       THEN [error |-> resolved.error, links |-> lnks]
       ELSE IF \E i \in 1..Len(lnks) : lnks[i].url = valid.url
       THEN [error |-> "Link already added", links |-> lnks]
       ELSE [error |-> "", links |-> Append(lnks, link)]

\* a delete that drops the link and those added after it
delete_truncate(lnks, link_id) ==
    LET index == FirstIndex({i \in 1..Len(lnks) : lnks[i].id = link_id})
    IN IF index = 0
       THEN [error |-> "Link not found", links |-> lnks]
       ELSE [error |-> "", links |-> SubSeq(lnks, 1, index - 1)]

\* LinkStore.delete up to its _persist
LinkStore_delete(lnks, link_id) ==
    LET index == FirstIndex({i \in 1..Len(lnks) : lnks[i].id = link_id})
    IN IF index = 0
       THEN [error |-> "Link not found", links |-> lnks]
       ELSE [error |-> "", links |-> Pop(lnks, index)]

----------------------------------------------------------------------------
(* Inputs and bounds *)

\* the most links the store is taken to
MaxLinks == 2

\* category names as callers write them
NameInputs == {<<" ", "a", "!">>, <<"a", " ", "b">>, <<"!">>}

\* the names of SpecCat: a third name after normalisation
MoreNameInputs == NameInputs \cup {<<"b">>}

\* category paths as callers write them; None is the omitted path
PathInputs == {None, <<>>, <<"a">>, <<"a", "_", "b">>, <<"!", " ">>}

UrlInputs ==
    { Url(TRUE, "HTTPS", "e.com", "/a"), Url(FALSE, "https", "e.com", "/a"),
      Url(FALSE, "https", "E.com", "/a"), Url(FALSE, "http", "e.com", "/a"),
      Url(FALSE, "https", "", "/a") }

\* display names of links as callers write them
LinkNameInputs == {None, <<" ", "n">>}

\* the category of a link as callers write it
CategoryInputs == {None, <<"a">>, <<"a", " ", "b">>, <<"b">>, <<"!">>}

\* the values secrets.token_hex(8) returns
TokenHex == {"t1", "t2"}

\* the value datetime.utcnow() returns
Instant == 0

Call(op, error) == [op |-> op, error |-> error]

\* the error a call ends with: its own, or the one _persist raises
Outcome(error, io) ==
    IF error # "" THEN error ELSE IF io = "ok" THEN "" ELSE "OSError"

----------------------------------------------------------------------------
(* Request threads, the media root, requests *)

\* the threads of the server's pool that serve requests
Threads == {"t1", "t2"}

\* a record standing for no record
NoRecord == [none |-> TRUE]

\* a thread outside any store call
Idle == [pc |-> "idle", store |-> "none", op |-> "none", rec |-> NoRecord,
         key |-> None, index |-> 0, fd |-> "none", before |-> NoFile,
         error |-> ""]

\* the name of a file or directory: its stem and its suffix as pathlib cuts it
Name(stem, suffix) == [stem |-> stem, suffix |-> suffix]

\* settings.media_dir, resolved and made when the settings are built
media_dir == <<Name(<<"media">>, "")>>

\* the st_mtime of the files given, all written at the instant t
Stamped(S, t) == [f \in S |-> t]

\* a file system with nothing in it but the media root, on a machine whose
\* local time is UTC
EmptyDisk ==
    [files |-> {}, dirs |-> {media_dir}, links |-> {}, locked |-> {},
     mtime |-> Stamped({}, 0), utcoffset |-> 0]

\* no request served yet
NoRequest ==
    [endpoint |-> "none", token |-> None, status |-> 0, detail |-> "",
     items |-> <<>>, results |-> <<>>, touched |-> {}, dir |-> <<>>]

\* config.py sets no upload_token on Settings
NoUploadToken == [defined |-> FALSE, upload_token |-> None]

----------------------------------------------------------------------------
(* The calls on the stores, each run without interruption *)

\* category_store.add(name, path), with io the outcome of its _persist
CatAddCall(name, path, io) ==
    LET r == CategoryStore_add(categories, name, path)
        p == IF r.error = "" THEN persist(r.categories, catDoc, catTmp, io)
             ELSE [doc |-> catDoc, tmp |-> catTmp]
    IN /\ categories' = r.categories
       /\ catDoc' = p.doc
       /\ catTmp' = p.tmp
       /\ last' = Call("CategoryStore.add", Outcome(r.error, io))
       /\ UNCHANGED <<links, linkDoc, linkTmp, rest>>

\* category_store.delete(name)
CatDeleteCall(name, io) ==
    LET r == CategoryStore_delete(categories, name)
        p == IF r.error = "" THEN persist(r.categories, catDoc, catTmp, io)
             ELSE [doc |-> catDoc, tmp |-> catTmp]
    IN /\ categories' = r.categories
       /\ catDoc' = p.doc
       /\ catTmp' = p.tmp
       /\ last' = Call("CategoryStore.delete", Outcome(r.error, io))
       /\ UNCHANGED <<links, linkDoc, linkTmp, rest>>

\* category_store.update(name, new_name, new_path)
CatUpdateCall(name, new_name, new_path, io) ==
    LET r == CategoryStore_update(categories, name, new_name, new_path)
        p == IF r.error = "" THEN persist(r.categories, catDoc, catTmp, io)
             ELSE [doc |-> catDoc, tmp |-> catTmp]
    IN /\ categories' = r.categories
       /\ catDoc' = p.doc
       /\ catTmp' = p.tmp
       /\ last' = Call("CategoryStore.update", Outcome(r.error, io))
       /\ UNCHANGED <<links, linkDoc, linkTmp, rest>>

\* link_store.add(url, name, category)
LinkAddCall(url, name, category, token, utcnow, io) ==
    LET r == LinkStore_add(links, categories, url, name, category, token, utcnow)
        p == IF r.error = "" THEN persist(r.links, linkDoc, linkTmp, io)
             ELSE [doc |-> linkDoc, tmp |-> linkTmp]
    IN /\ Len(r.links) <= MaxLinks
       /\ links' = r.links
       /\ linkDoc' = p.doc
       /\ linkTmp' = p.tmp
       /\ last' = Call("LinkStore.add", Outcome(r.error, io))
       /\ UNCHANGED <<categories, catDoc, catTmp, rest>>

\* link_store.delete(link_id)
LinkDeleteCall(link_id, io) ==
    LET r == LinkStore_delete(links, link_id)
        p == IF r.error = "" THEN persist(r.links, linkDoc, linkTmp, io)
             ELSE [doc |-> linkDoc, tmp |-> linkTmp]
    IN /\ links' = r.links
       /\ linkDoc' = p.doc
       /\ linkTmp' = p.tmp
       /\ last' = Call("LinkStore.delete", Outcome(r.error, io))
       /\ UNCHANGED <<categories, catDoc, catTmp, rest>>

----------------------------------------------------------------------------
(* Spec: both stores under calls executed one at a time, every _persist    *)
(* succeeding                                                              *)

\* no request is being served, and the media root is an empty directory
InitRest ==
    /\ thread = [t \in Threads |-> Idle]
    /\ disk = EmptyDisk
    /\ request = NoRequest
    /\ settings = NoUploadToken

\* module load: CategoryStore._load finds no document, seeds the list from the
\* empty category map and persists it; LinkStore._load finds no document
Init ==
    /\ categories = <<>>
    /\ catDoc = Document(<<>>)
    /\ catTmp = NoFile
    /\ links = <<>>
    /\ linkDoc = NoFile
    /\ linkTmp = NoFile
    /\ last = Call("init", "")
    /\ InitRest

CatAdd == \E name \in NameInputs, path \in PathInputs : CatAddCall(name, path, "ok")

CatDelete == \E name \in NameInputs : CatDeleteCall(name, "ok")

CatUpdate ==
    \E name \in NameInputs, new_name \in NameInputs \cup {None},
       new_path \in PathInputs :
        CatUpdateCall(name, new_name, new_path, "ok")

\* the links of this specification are added under their default name
LinkAdd ==
    \E url \in UrlInputs, category \in CategoryInputs, token \in TokenHex :
        LinkAddCall(url, None, category, token, Instant, "ok")

LinkDelete == \E link_id \in TokenHex : LinkDeleteCall(link_id, "ok")

Next == CatAdd \/ CatDelete \/ CatUpdate \/ LinkAdd \/ LinkDelete

Spec == Init /\ [][Next]_vars

----------------------------------------------------------------------------
(* SpecCat: the category store under calls executed one at a time, every   *)
(* _persist succeeding, with a third name                                  *)

AddCategory ==
    \E name \in MoreNameInputs, path \in PathInputs : CatAddCall(name, path, "ok")

DeleteCategory == \E name \in MoreNameInputs : CatDeleteCall(name, "ok")

UpdateCategory ==
    \E name \in MoreNameInputs, new_name \in MoreNameInputs \cup {None},
       new_path \in PathInputs :
        CatUpdateCall(name, new_name, new_path, "ok")

NextCat == AddCategory \/ DeleteCategory \/ UpdateCategory

SpecCat == Init /\ [][NextCat]_vars

----------------------------------------------------------------------------
(* SpecCatIO: the category store under calls executed one at a time, a     *)
(* _persist failing or not                                                 *)

CategoryAdd ==
    \E name \in NameInputs, path \in PathInputs, io \in IOOutcomes :
        CatAddCall(name, path, io)

CategoryDelete ==
    \E name \in NameInputs, io \in IOOutcomes : CatDeleteCall(name, io)

CategoryUpdate ==
    \E name \in NameInputs, new_name \in NameInputs \cup {None},
       new_path \in PathInputs, io \in IOOutcomes :
        CatUpdateCall(name, new_name, new_path, io)

NextCatIO == CategoryAdd \/ CategoryDelete \/ CategoryUpdate

SpecCatIO == Init /\ [][NextCatIO]_vars

----------------------------------------------------------------------------
(* SpecLinks: the link store under calls executed one at a time, every     *)
(* _persist succeeding, beside a category store that add calls have filled *)
(* before                                                                  *)

\* category_store after add("a", "a_b") and add("a b", "a"): each record's
\* name is the other's path
SeededCategories == <<Category(<<"a">>, <<"a", "_", "b">>),
                      Category(<<"a", "_", "b">>, <<"a">>)>>

InitLinks ==
    /\ categories \in {<<>>, SubSeq(SeededCategories, 1, 1), SeededCategories}
    /\ catDoc = Document(categories)
    /\ catTmp = NoFile
    /\ links = <<>>
    /\ linkDoc = NoFile
    /\ linkTmp = NoFile
    /\ last = Call("init", "")
    /\ InitRest

LinkStoreAdd ==
    \E url \in UrlInputs, name \in LinkNameInputs, category \in CategoryInputs,
       token \in TokenHex :
        LinkAddCall(url, name, category, token, Instant, "ok")

LinkStoreDelete == \E link_id \in TokenHex : LinkDeleteCall(link_id, "ok")

NextLinks == LinkStoreAdd \/ LinkStoreDelete

SpecLinks == InitLinks /\ [][NextLinks]_vars

----------------------------------------------------------------------------
(* The calls on the stores step by step: a thread checks, changes the list *)
(* in memory, opens the temporary file, dumps the list into it and renames *)
(* it over the document; other threads run between the steps               *)

\* _persist opening the document itself for writing
temp_path_in_place == "doc"

\* the file _persist opens for writing: store_path with ".tmp" appended
temp_path == "tmp"

\* the document and the temporary file of a store
Files(store) ==
    IF store = "cat" THEN [doc |-> catDoc, tmp |-> catTmp]
    ELSE [doc |-> linkDoc, tmp |-> linkTmp]

\* the list in memory of a store
Mem(store) == IF store = "cat" THEN categories ELSE links

\* open(path, "w"): the file is created, or truncated if it exists
fopen(f, path) == [f EXCEPT ![path] = Partial]

\* json.dump and close on a file opened before: the text is written from the
\* start of the file, over what another writer of the same file left there; a
\* shorter text leaves the tail of the longer one behind it
fwrite(f, where, records) ==
    IF where \notin {"doc", "tmp"} THEN f
    ELSE IF Len(records) >= Len(f[where].data)
    THEN [f EXCEPT ![where] = Document(records)]
    ELSE [f EXCEPT ![where] = [exists |-> TRUE, complete |-> FALSE,
                               data |-> f[where].data]]

\* Path.replace: the file at src takes the place of the document
freplace(f, src) == IF src = "doc" THEN f ELSE [doc |-> f[src], tmp |-> NoFile]

\* where an open file is after another thread renamed src over the document
Renamed(th, store, src) ==
    IF th.store # store \/ src = "doc" THEN th
    ELSE IF th.fd = src THEN [th EXCEPT !.fd = "doc"]
    ELSE IF th.fd = "doc" THEN [th EXCEPT !.fd = "unlinked"]
    ELSE th

\* the assignment of a store's list and files
StoreAssign(store, mem, f) ==
    IF store = "cat"
    THEN /\ categories' = mem
         /\ catDoc' = f.doc
         /\ catTmp' = f.tmp
         /\ UNCHANGED <<links, linkDoc, linkTmp>>
    ELSE /\ links' = mem
         /\ linkDoc' = f.doc
         /\ linkTmp' = f.tmp
         /\ UNCHANGED <<categories, catDoc, catTmp>>

StoreUnchanged == UNCHANGED <<categories, catDoc, catTmp, links, linkDoc, linkTmp>>

\* the thread's call ends with the error ("" when it returns)
Ended(th, error) == [th EXCEPT !.pc = "done", !.error = error, !.fd = "none"]

Started(store, op, rec, key) ==
    [Idle EXCEPT !.pc = "check", !.store = store, !.op = op, !.rec = rec,
                 !.key = key, !.before = Files(store).doc]

\* CategoryStore.add, lines 109-115: the arguments are normalised
BeginCatAdd(t, name, path) ==
    LET normalized_name == normalize_category(name)
        normalized_path ==
            normalize_category(IF Truthy(path) THEN path ELSE normalized_name)
        started == Started("cat", "add", NoRecord, None)
    IN /\ thread[t].pc = "idle"
       /\ thread' = [thread EXCEPT ![t] =
              IF normalized_name = None
              THEN Ended(started, "Invalid category name")
              ELSE IF normalized_path = None
              THEN Ended(started, "Invalid category path")
              ELSE [started EXCEPT
                        !.rec = Category(normalized_name, normalized_path)]]
       /\ StoreUnchanged
       /\ UNCHANGED <<last, disk, request, settings>>

\* CategoryStore.delete, lines 128-130
BeginCatDelete(t, name) ==
    LET normalized_name == normalize_category(name)
        started == Started("cat", "delete", NoRecord, normalized_name)
    IN /\ thread[t].pc = "idle"
       /\ thread' = [thread EXCEPT ![t] =
              IF normalized_name = None
              THEN Ended(started, "Category not found")
              ELSE started]
       /\ StoreUnchanged
       /\ UNCHANGED <<last, disk, request, settings>>

\* LinkStore.add, lines 222-223: the URL is validated, the category resolved
BeginLinkAdd(t, url, name, category, token, utcnow) ==
    LET valid == validate_url(url)
        resolved == resolve_category(categories, category)
        link == Link(token,
                     IF Truthy(name) /\ Strip(name) # <<>>
                     THEN Strip(name) ELSE valid.domain,
                     valid.url, valid.domain, resolved.name, resolved.path, utcnow)
        started == Started("link", "add", NoRecord, None)
    IN /\ thread[t].pc = "idle"
       /\ thread' = [thread EXCEPT ![t] =
              IF valid.error # "" THEN Ended(started, valid.error)
              ELSE IF resolved.error # "" THEN Ended(started, resolved.error)
              ELSE [started EXCEPT !.rec = link]]
       /\ StoreUnchanged
       /\ UNCHANGED <<last, disk, request, settings>>

\* LinkStore.delete
BeginLinkDelete(t, link_id) ==
    /\ thread[t].pc = "idle"
    /\ thread' = [thread EXCEPT ![t] = Started("link", "delete", NoRecord, <<link_id>>)]
    /\ StoreUnchanged
    /\ UNCHANGED <<last, disk, request, settings>>

\* the error the checks of the call raise on the list as it is now, "" for
\* none, and the index the loop of delete stops at
Checked(th) ==
    IF th.store = "cat" /\ th.op = "add"
    THEN [error |-> IF get_by_name(categories, th.rec.name) # 0
                    THEN "Category name already exists"
                    ELSE IF get_by_path(categories, th.rec.path) # 0
                    THEN "Category path already exists"
                    ELSE "",
          index |-> 0]
    ELSE IF th.store = "cat"
    THEN LET index ==
                 FirstIndex({i \in 1..Len(categories) : categories[i].name = th.key})
         IN [error |-> IF index = 0 THEN "Category not found" ELSE "",
             index |-> index]
    ELSE IF th.op = "add"
    THEN [error |-> IF \E i \in 1..Len(links) : links[i].url = th.rec.url
                    THEN "Link already added" ELSE "",
          index |-> 0]
    ELSE LET index == FirstIndex({i \in 1..Len(links) : <<links[i].id>> = th.key})
         IN [error |-> IF index = 0 THEN "Link not found" ELSE "",
             index |-> index]

\* the duplicate checks of add, the search of delete
Check(t) ==
    LET th == thread[t]
        c == Checked(th)
    IN /\ th.pc = "check"
       /\ thread' = [thread EXCEPT ![t] =
              IF c.error # "" THEN Ended(th, c.error)
              ELSE [th EXCEPT !.pc = "mutate", !.index = c.index]]
       /\ StoreUnchanged
       /\ UNCHANGED <<last, disk, request, settings>>

\* list.append of add, list.pop of delete
Mutate(t) ==
    LET th == thread[t]
        mem == Mem(th.store)
    IN /\ th.pc = "mutate"
       /\ IF th.op = "delete" /\ th.index > Len(mem)
          THEN /\ thread' = [thread EXCEPT ![t] = Ended(th, "IndexError")]
               /\ StoreUnchanged
          ELSE /\ thread' = [thread EXCEPT ![t].pc = "open"]
               /\ StoreAssign(th.store,
                              IF th.op = "add" THEN Append(mem, th.rec)
                              ELSE Pop(mem, th.index),
                              Files(th.store))
       /\ UNCHANGED <<last, disk, request, settings>>

\* _persist: temp_path.open("w")
Open(t) ==
    LET th == thread[t]
    IN /\ th.pc = "open"
       /\ thread' = [thread EXCEPT ![t].pc = "dump", ![t].fd = temp_path]
       /\ StoreAssign(th.store, Mem(th.store), fopen(Files(th.store), temp_path))
       /\ UNCHANGED <<last, disk, request, settings>>

\* _persist: json.dump of the list as it is now, and the end of the with block
Dump(t, io) ==
    LET th == thread[t]
    IN /\ th.pc = "dump"
       /\ IF io = "ok"
          THEN /\ thread' = [thread EXCEPT ![t].pc = "replace", ![t].fd = "none"]
               /\ StoreAssign(th.store, Mem(th.store),
                              fwrite(Files(th.store), th.fd, Mem(th.store)))
          ELSE /\ thread' = [thread EXCEPT ![t] = Ended(th, "OSError")]
               /\ StoreUnchanged
       /\ UNCHANGED <<last, disk, request, settings>>

\* _persist: temp_path.replace(store_path); FileNotFoundError when another
\* thread has renamed the temporary file away
Replace(t) ==
    LET th == thread[t]
        f == Files(th.store)
    IN /\ th.pc = "replace"
       /\ IF f[temp_path].exists
          THEN /\ thread' = [u \in Threads |->
                      IF u = t THEN Ended(th, "")
                      ELSE Renamed(thread[u], th.store, temp_path)]
               /\ StoreAssign(th.store, Mem(th.store), freplace(f, temp_path))
          ELSE /\ thread' = [thread EXCEPT ![t] = Ended(th, "OSError")]
               /\ StoreUnchanged
       /\ UNCHANGED <<last, disk, request, settings>>

\* the call returns or raises and the thread takes the next request
Return(t) ==
    /\ thread[t].pc = "done"
    /\ thread' = [thread EXCEPT ![t] = Idle]
    /\ last' = Call(thread[t].store, thread[t].error)
    /\ StoreUnchanged
    /\ UNCHANGED <<disk, request, settings>>

\* _load of a store from its document at the start of the process
Loaded(doc) == IF doc.exists /\ doc.complete THEN doc.data ELSE <<>>

\* the process dies and starts again: the lists are loaded from the documents
Crash ==
    /\ thread' = [t \in Threads |-> Idle]
    /\ categories' = Loaded(catDoc)
    /\ links' = Loaded(linkDoc)
    /\ last' = Call("init", "")
    /\ UNCHANGED <<catDoc, catTmp, linkDoc, linkTmp, disk, request, settings>>

----------------------------------------------------------------------------
(* SpecConc: two threads, one add each, interleaved at their steps         *)

ConcCatAdd ==
    \E t \in Threads, name \in NameInputs, path \in PathInputs :
        BeginCatAdd(t, name, path)

ConcLinkAdd ==
    \E t \in Threads, url \in UrlInputs, category \in {None}, token \in TokenHex :
        BeginLinkAdd(t, url, None, category, token, Instant)

ConcCheck == \E t \in Threads : Check(t)

ConcMutate == \E t \in Threads : Mutate(t)

ConcOpen == \E t \in Threads : Open(t)

ConcDump == \E t \in Threads : Dump(t, "ok")

ConcReplace == \E t \in Threads : Replace(t)

NextConc ==
    \/ ConcCatAdd \/ ConcLinkAdd \/ ConcCheck \/ ConcMutate
    \/ ConcOpen \/ ConcDump \/ ConcReplace

SpecConc == Init /\ [][NextConc]_vars

----------------------------------------------------------------------------
(* SpecPersist: one thread, call after call, step by step; the process may *)
(* die between any two steps                                               *)

\* the thread that serves the requests of SpecPersist
Writer == "t1"

PersistCatAdd ==
    \E name \in NameInputs : BeginCatAdd(Writer, name, None)

PersistCatDelete == \E name \in NameInputs : BeginCatDelete(Writer, name)

\* the URLs posted in SpecPersist: one that is stored, one that is refused
PersistUrls == {Url(FALSE, "https", "e.com", "/a"), Url(FALSE, "http", "e.com", "/a")}

PersistLinkAdd ==
    \E url \in PersistUrls : BeginLinkAdd(Writer, url, None, None, "t1", Instant)

PersistLinkDelete == \E link_id \in TokenHex : BeginLinkDelete(Writer, link_id)

PersistCheck == Check(Writer)

PersistMutate == Mutate(Writer)

PersistOpen == Open(Writer)

PersistDump == \E io \in IOOutcomes : Dump(Writer, io)

PersistReplace == Replace(Writer)

PersistReturn == Return(Writer)

NextPersist ==
    \/ PersistCatAdd \/ PersistCatDelete \/ PersistLinkAdd \/ PersistLinkDelete
    \/ PersistCheck \/ PersistMutate \/ PersistOpen \/ PersistDump
    \/ PersistReplace \/ PersistReturn \/ Crash

SpecPersist == Init /\ [][NextPersist]_vars

----------------------------------------------------------------------------
(* Paths and the file system: a location is the sequence of the names on   *)
(* the way from "/"                                                        *)

\* the components "." and ".."
Dot == Name(<<".">>, "")

DotDot == Name(<<"..">>, "")

\* PurePath.name of a path without components
EmptyName == Name(<<>>, "")

\* a path as a caller writes it: absolute or not, and its components
UserPath(abs, segs) == [prefix |-> "", id |-> "", abs |-> abs, segs |-> segs]

\* "link:" followed by the id of a link
LinkPath(id) == [prefix |-> "link:", id |-> id, abs |-> FALSE, segs |-> <<>>]

\* settings.allowed_extensions
allowed_extensions == {".jpg", ".mp4"}

\* Path(p).name: the last component, "." components dropped
PathName(segs) ==
    LET parts == SelectSeq(segs, LAMBDA c : c # Dot)
    IN IF parts = <<>> THEN EmptyName ELSE parts[Len(parts)]

is_allowed_file(segs) == Lower(PathName(segs).suffix) \in allowed_extensions

\* Path.resolve() one component on from a resolved location: ".." goes to the
\* parent, a symbolic link is followed to its target
step(d, at, c) ==
    IF c = Dot THEN at
    ELSE IF c = DotDot
    THEN IF at = <<>> THEN at ELSE SubSeq(at, 1, Len(at) - 1)
    ELSE LET next == Append(at, c)
         IN IF \E l \in d.links : l.at = next
            THEN (CHOOSE l \in d.links : l.at = next).to
            ELSE next

RECURSIVE resolve_from(_, _, _)
resolve_from(d, at, segs) ==
    IF segs = <<>> THEN at
    ELSE resolve_from(d, step(d, at, Head(segs)), Tail(segs))

\* (base / path).resolve(): an absolute path takes the place of the base
resolve(d, base, path) ==
    resolve_from(d, IF path.abs THEN <<>> ELSE base, path.segs)

\* Path.relative_to(settings.media_dir) raises no ValueError
relative_to_media_dir(at) ==
    /\ Len(at) >= Len(media_dir)
    /\ SubSeq(at, 1, Len(media_dir)) = media_dir

\* settings.media_dir in Path.parents
media_dir_in_parents(at) == relative_to_media_dir(at) /\ Len(at) > Len(media_dir)

exists(d, at) == at \in d.files \cup d.dirs

is_file(d, at) == at \in d.files

\* Path.mkdir(parents=True, exist_ok=True) of a directory under the media root
mkdir(d, at) ==
    IF exists(d, at) \/ (\E l \in d.links : l.at = at) THEN d
    ELSE [d EXCEPT !.dirs = @ \cup {at}]

\* _validate_media_path without its relative_to check
validate_unchecked(d, relative_path) ==
    LET target_path == resolve(d, media_dir, relative_path)
    IN IF ~relative_path.abs /\ relative_path.segs = <<>>
       THEN [error |-> "Path is required", target |-> target_path]
       ELSE IF ~is_allowed_file(target_path)
       THEN [error |-> "File type not allowed", target |-> target_path]
       ELSE [error |-> "", target |-> target_path]

\* _validate_media_path: the error raised, "" for none, and the target
validate_media_path(d, relative_path) ==
    LET target_path == resolve(d, media_dir, relative_path)
    IN IF ~relative_path.abs /\ relative_path.segs = <<>>
       THEN [error |-> "Path is required", target |-> target_path]
       ELSE IF ~relative_to_media_dir(target_path)
       THEN [error |-> "Path must be inside media directory", target |-> target_path]
       ELSE IF ~is_allowed_file(target_path)
       THEN [error |-> "File type not allowed", target |-> target_path]
       ELSE [error |-> "", target |-> target_path]

\* f"{stem}_{counter}{suffix}"
with_counter(name, counter) ==
    IF counter = 0 THEN name
    ELSE Name(name.stem \o <<"_", ToString(counter)>>, name.suffix)

\* _resolve_target_path taking the literal name whether it exists or not
candidate_literal(d, target_dir, safe_name, counter) ==
    LET candidate_path == step(d, target_dir, safe_name)
    IN IF ~relative_to_media_dir(candidate_path)
       THEN [error |-> "Path must be inside media directory", path |-> candidate_path]
       ELSE [error |-> "", path |-> candidate_path]

\* the loop of _resolve_target_path over the counter
RECURSIVE candidate(_, _, _, _)
candidate(d, target_dir, safe_name, counter) ==
    LET candidate_path == step(d, target_dir, with_counter(safe_name, counter))
    IN IF ~relative_to_media_dir(candidate_path)
       THEN [error |-> "Path must be inside media directory", path |-> candidate_path]
       ELSE IF ~exists(d, candidate_path)
       THEN [error |-> "", path |-> candidate_path]
       ELSE candidate(d, target_dir, safe_name, counter + 1)

\* _resolve_target_path: the HTTPException raised, "" for none, and the path
resolve_target_path(d, filename, target_dir) ==
    LET safe_name == PathName(filename.segs)
    IN IF \/ filename.abs
          \/ Len(filename.segs) # 1
          \/ filename.segs[1] = Dot
          \/ safe_name.stem = <<>>
       THEN [error |-> "Filename cannot contain path separators and must include a name",
             path |-> <<>>]
       ELSE candidate(d, resolve_from(d, <<>>, target_dir), safe_name, 0)

----------------------------------------------------------------------------
(* The endpoints *)

\* an uploaded file: the name the client gave it and what reading it yields
Upload(filename, content) == [filename |-> filename, content |-> content]

\* one entry of the results of a batch
Result(status, message, code, path) ==
    [status |-> status, message |-> message, code |-> code, path |-> path]

\* what reading an uploaded file yields: its bytes, or an exception
Bytes(size, readable) == [size |-> size, readable |-> readable]

\* settings.max_upload_bytes
max_upload_bytes == 2

\* the chunk_size of _stream_to_disk
chunk_size == 1

\* a file of the largest size accepted, one a byte larger, one that cannot
\* be read
Small == Bytes(max_upload_bytes, TRUE)

Large == Bytes(max_upload_bytes + 1, TRUE)

Broken == Bytes(1, FALSE)

\* the loop of _stream_to_disk: the detail of the HTTPException it raises, ""
\* when the file ends first
RECURSIVE read_chunks(_, _)
read_chunks(remaining, total_bytes) ==
    LET chunk == IF remaining < chunk_size THEN remaining ELSE chunk_size
    IN IF chunk = 0 THEN ""
       ELSE IF total_bytes + chunk > max_upload_bytes THEN "File too large"
       ELSE read_chunks(remaining - chunk, total_bytes + chunk)

\* _stream_to_disk: the file is opened for writing, then read and written
\* chunk by chunk; the error that leaves it, "" for none, and the disk after
stream_to_disk(d, upload, target_path) ==
    [error |-> IF ~upload.content.readable THEN "Upload failed"
               ELSE read_chunks(upload.content.size, 0),
     disk |-> [d EXCEPT !.files = @ \cup {target_path},
                        !.mtime = [f \in DOMAIN @ \cup {target_path} |->
                                      IF f = target_path THEN Instant ELSE @[f]]]]

\* an unlink that leaves the file where it is
unlink_skipped(d, at) == d

\* Path.unlink
unlink(d, at) ==
    [d EXCEPT !.files = @ \ {at}, !.mtime = [f \in DOMAIN @ \ {at} |-> @[f]]]

\* process_upload_file: the HTTPException that leaves it, "" for none, its
\* result, the disk after it and the locations it opened
process_upload_file(d, upload, target_dir) ==
    LET target == resolve_target_path(d, upload.filename, target_dir)
        streamed == stream_to_disk(d, upload, target.path)
        failed(message, touched) ==
            [raised |-> "", result |-> Result("error", message, 0, <<>>),
             disk |-> d, touched |-> touched]
    IN IF ~upload.filename.abs /\ upload.filename.segs = <<>>
       THEN failed("Filename is required", {})
       ELSE IF ~is_allowed_file(upload.filename.segs)
       THEN failed("File type not allowed", {})
       ELSE IF target.error # ""
       THEN [raised |-> target.error, result |-> Result("error", target.error, 400, <<>>),
             disk |-> d, touched |-> {}]
       ELSE IF streamed.error # ""
       THEN [raised |-> "", result |-> Result("error", streamed.error, 0, <<>>),
             disk |-> IF exists(streamed.disk, target.path)
                      THEN unlink(streamed.disk, target.path)
                      ELSE streamed.disk,
             touched |-> {target.path}]
       ELSE [raised |-> "", result |-> Result("success", "Uploaded", 0, target.path),
             disk |-> streamed.disk,
             touched |-> {target.path}]

\* the loop of upload_media over the files: it ends at the first exception
RECURSIVE upload_files(_, _, _, _, _)
upload_files(d, files, target_dir, results, touched) ==
    IF files = <<>>
    THEN [raised |-> "", results |-> results, disk |-> d, touched |-> touched]
    ELSE LET r == process_upload_file(d, Head(files), target_dir)
         IN IF r.raised # ""
            THEN [raised |-> r.raised, results |-> results, disk |-> r.disk,
                  touched |-> touched]
            ELSE upload_files(r.disk, Tail(files), target_dir,
                              Append(results, r.result), touched \cup r.touched)

\* verify_token: the status of the error raised, 0 for none; reading an
\* attribute the settings do not have is an AttributeError
verify_token(conf, x_upload_token) ==
    IF ~conf.defined THEN 500
    ELSE IF conf.upload_token = None THEN 400
    ELSE IF (IF x_upload_token = None THEN <<>> ELSE x_upload_token) # conf.upload_token
    THEN 401
    ELSE 0

GateDetail(status) ==
    IF status = 500 THEN "AttributeError"
    ELSE IF status = 400 THEN "UPLOAD_TOKEN not configured on server"
    ELSE "Invalid upload token"

Response(endpoint, token, status, detail, items, results, touched, dir) ==
    [endpoint |-> endpoint, token |-> token, status |-> status, detail |-> detail,
     items |-> items, results |-> results, touched |-> touched, dir |-> dir]

\* a response that carries an error and nothing else
Refused(endpoint, token, status, detail, items) ==
    Response(endpoint, token, status, detail, items, <<>>, {}, <<>>)

\* the files strictly inside the media root
Stored(d) == {f \in d.files : media_dir_in_parents(f)}

\* the most files the media root is taken to
MaxStored == 2

\* POST /api/media
upload_media(token, category, files) ==
    LET gate == verify_token(settings, token)
        safe_category == normalize_category(category)
        index == IF safe_category # None THEN get_by_name(categories, safe_category)
                 ELSE 0
        target_dir == IF index # 0
                      THEN Append(media_dir, Name(categories[index].path, ""))
                      ELSE media_dir
        made == mkdir(disk, target_dir)
        r == upload_files(made, files, target_dir, <<>>, {})
        has_success == \E i \in 1..Len(r.results) : r.results[i].status = "success"
        has_failure == \E i \in 1..Len(r.results) : r.results[i].status = "error"
    IN /\ Cardinality(Stored(disk)) + Len(files) <= MaxStored
       /\ IF gate # 0
          THEN /\ request' = Refused("upload_media", token, gate, GateDetail(gate), <<>>)
               /\ disk' = disk
          ELSE IF files = <<>>
          THEN /\ request' = Refused("upload_media", token, 400, "No files provided", <<>>)
               /\ disk' = disk
          ELSE IF safe_category # None /\ index = 0
          THEN /\ request' = Refused("upload_media", token, 400, "Unknown category", <<>>)
               /\ disk' = disk
          ELSE /\ disk' = r.disk
               /\ request' =
                      IF r.raised # ""
                      THEN Response("upload_media", token, 400, r.raised, files,
                                    <<>>, r.touched, target_dir)
                      ELSE Response("upload_media", token,
                                    IF has_success /\ ~has_failure THEN 201 ELSE 207,
                                    IF has_success THEN "Uploaded" ELSE "Upload failed",
                                    files, r.results, r.touched, target_dir)
       /\ StoreUnchanged
       /\ UNCHANGED <<last, thread, settings>>

\* GET /media/{media_path}
serve_media(media_path) ==
    LET requested_path == resolve(disk, media_dir, media_path)
    IN /\ request' =
              IF ~is_file(disk, requested_path) \/ ~media_dir_in_parents(requested_path)
              THEN Refused("serve_media", None, 404, "Media not found", <<media_path>>)
              ELSE Response("serve_media", None, 200, "", <<media_path>>, <<>>,
                            {requested_path}, <<>>)
       /\ StoreUnchanged
       /\ UNCHANGED <<last, thread, disk, settings>>

\* the assignment of the link store after link_store.delete
LinksAssign(r) ==
    /\ links' = r.links
    /\ linkDoc' = IF r.error = "" THEN Document(r.links) ELSE linkDoc
    /\ linkTmp' = IF r.error = "" THEN NoFile ELSE linkTmp

\* DELETE /api/media
delete_media(token, path) ==
    LET gate == verify_token(settings, token)
        deleted == LinkStore_delete(links, path.id)
        valid == validate_media_path(disk, path)
        refused(status, detail) ==
            /\ request' = Refused("delete_media", token, status, detail, <<path>>)
            /\ UNCHANGED <<disk, links, linkDoc, linkTmp>>
    IN /\ IF gate # 0
          THEN /\ request' = Refused("delete_media", token, gate, GateDetail(gate), <<>>)
               /\ UNCHANGED <<disk, links, linkDoc, linkTmp>>
          ELSE IF path.prefix = "link:"
          THEN /\ LinksAssign(deleted)
               /\ request' =
                      IF deleted.error # ""
                      THEN Refused("delete_media", token, 404, deleted.error, <<path>>)
                      ELSE Response("delete_media", token, 200, "Deleted", <<path>>,
                                    <<>>, {}, <<>>)
               /\ disk' = disk
          ELSE IF valid.error # "" THEN refused(400, valid.error)
          ELSE IF ~is_file(disk, valid.target) THEN refused(404, "Media not found")
          ELSE IF valid.target \in disk.locked
          THEN /\ request' = Response("delete_media", token, 500, "OSError", <<path>>,
                                      <<>>, {valid.target}, <<>>)
               /\ UNCHANGED <<disk, links, linkDoc, linkTmp>>
          ELSE /\ disk' = unlink(disk, valid.target)
               /\ request' = Response("delete_media", token, 200, "Deleted", <<path>>,
                                      <<>>, {valid.target}, <<>>)
               /\ UNCHANGED <<links, linkDoc, linkTmp>>
       /\ UNCHANGED <<categories, catDoc, catTmp, last, thread, settings>>

\* a turn of the loop that unlinks without asking whether the file is there
delete_one_blind(d, lnks, raw_path) ==
    LET valid == validate_media_path(d, raw_path)
    IN IF raw_path.prefix = "link:" \/ valid.error # ""
       THEN [result |-> Result("error", "Invalid path", 400, <<>>), disk |-> d,
             links |-> lnks, touched |-> {}]
       ELSE [result |-> Result("success", "Deleted", 200, valid.target),
             disk |-> unlink(d, valid.target),
             links |-> lnks, touched |-> {valid.target}]

\* one turn of the loop of delete_media_batch: its result, the disk and the
\* links after it, the location it unlinked
delete_one(d, lnks, raw_path) ==
    LET deleted == LinkStore_delete(lnks, raw_path.id)
        valid == validate_media_path(d, raw_path)
        failed(message, code) ==
            [result |-> Result("error", message, code, <<>>), disk |-> d,
             links |-> lnks, touched |-> {}]
    IN IF raw_path.prefix = "link:"
       THEN IF deleted.error # "" THEN failed(deleted.error, 404)
            ELSE [result |-> Result("success", "Deleted", 200, <<>>), disk |-> d,
                  links |-> deleted.links, touched |-> {}]
       ELSE IF valid.error # "" THEN failed(valid.error, 400)
       ELSE IF ~is_file(d, valid.target) THEN failed("Media not found", 404)
       ELSE IF valid.target \in d.locked
       THEN [result |-> Result("error", "Failed to delete file", 500, <<>>), disk |-> d,
             links |-> lnks, touched |-> {valid.target}]
       ELSE [result |-> Result("success", "Deleted", 200, valid.target),
             disk |-> unlink(d, valid.target),
             links |-> lnks, touched |-> {valid.target}]

RECURSIVE delete_paths(_, _, _, _, _)
delete_paths(d, lnks, payload, results, touched) ==
    IF payload = <<>>
    THEN [results |-> results, disk |-> d, links |-> lnks, touched |-> touched]
    ELSE LET r == delete_one(d, lnks, Head(payload))
         IN delete_paths(r.disk, r.links, Tail(payload), Append(results, r.result),
                         touched \cup r.touched)

\* min(codes)
MinCode(codes) == CHOOSE c \in codes : \A other \in codes : c <= other

\* the status of delete_media_batch that takes the highest code
batch_status_highest(results) ==
    LET codes == {results[i].code : i \in 1..Len(results)}
    IN CHOOSE c \in codes : \A other \in codes : c >= other

\* the response status delete_media_batch works out of its results
batch_status(results) ==
    LET has_success == \E i \in 1..Len(results) : results[i].status = "success"
        has_errors == \E i \in 1..Len(results) : results[i].status = "error"
        codes == {results[i].code : i \in 1..Len(results)}
    IN IF has_success /\ has_errors THEN 207
       ELSE IF has_success THEN 200
       ELSE IF codes = {404} THEN 404
       ELSE IF codes # {} THEN MinCode(codes)
       ELSE 400

\* DELETE /api/media/batch
delete_media_batch(token, payload) ==
    LET gate == verify_token(settings, token)
        r == delete_paths(disk, links, payload, <<>>, {})
        status == batch_status(r.results)
    IN /\ IF gate # 0
          THEN /\ request' = Refused("delete_media_batch", token, gate,
                                     GateDetail(gate), <<>>)
               /\ UNCHANGED <<disk, links, linkDoc, linkTmp>>
          ELSE IF payload = <<>>
          THEN /\ request' = Refused("delete_media_batch", token, 400,
                                     "Provide at least one path to delete", payload)
               /\ UNCHANGED <<disk, links, linkDoc, linkTmp>>
          ELSE /\ disk' = r.disk
               /\ links' = r.links
               /\ linkDoc' = IF r.links # links THEN Document(r.links) ELSE linkDoc
               /\ linkTmp' = IF r.links # links THEN NoFile ELSE linkTmp
               /\ request' = Response("delete_media_batch", token, status, "",
                                      payload, r.results, r.touched, <<>>)
       /\ UNCHANGED <<categories, catDoc, catTmp, last, thread, settings>>

\* the status of the HTTPException an endpoint makes of the error of a store
StoreStatus(error) ==
    IF error = "" THEN 0
    ELSE IF error \in {"Category not found", "Link not found"} THEN 404
    ELSE 400

\* the assignment of the category store after a call on it
CategoriesAssign(r) ==
    /\ categories' = r.categories
    /\ catDoc' = IF r.error = "" THEN Document(r.categories) ELSE catDoc
    /\ catTmp' = IF r.error = "" THEN NoFile ELSE catTmp

\* POST /api/categories
create_category(token, name, path) ==
    LET r == CategoryStore_add(categories, name, path)
    IN /\ CategoriesAssign(r)
       /\ request' = Refused("create_category", token,
                             IF r.error = "" THEN 201 ELSE StoreStatus(r.error),
                             r.error, <<>>)
       /\ UNCHANGED <<links, linkDoc, linkTmp, last, thread, disk, settings>>

\* DELETE /api/categories/{name}
delete_category(token, name) ==
    LET r == CategoryStore_delete(categories, name)
    IN /\ CategoriesAssign(r)
       /\ request' = Refused("delete_category", token,
                             IF r.error = "" THEN 200 ELSE StoreStatus(r.error),
                             r.error, <<>>)
       /\ UNCHANGED <<links, linkDoc, linkTmp, last, thread, disk, settings>>

\* PATCH /api/categories/{name}
update_category(token, name, new_name, new_path) ==
    LET r == CategoryStore_update(categories, name, new_name, new_path)
    IN /\ IF new_name = None /\ new_path = None
          THEN /\ request' = Refused("update_category", token, 400,
                                     "No updates provided", <<>>)
               /\ UNCHANGED <<categories, catDoc, catTmp>>
          ELSE /\ CategoriesAssign(r)
               /\ request' = Refused("update_category", token,
                                     IF r.error = "" THEN 200 ELSE StoreStatus(r.error),
                                     r.error, <<>>)
       /\ UNCHANGED <<links, linkDoc, linkTmp, last, thread, disk, settings>>

\* POST /api/links
create_link(token, url, name, category, token_hex, utcnow) ==
    LET gate == verify_token(settings, token)
        r == LinkStore_add(links, categories, url, name, category, token_hex, utcnow)
    IN /\ Len(links) < MaxLinks
       /\ IF gate # 0
          THEN /\ request' = Refused("create_link", token, gate, GateDetail(gate), <<>>)
               /\ UNCHANGED <<links, linkDoc, linkTmp>>
          ELSE /\ LinksAssign(r)
               /\ request' = Refused("create_link", token,
                                     IF r.error = "" THEN 201 ELSE StoreStatus(r.error),
                                     r.error, <<>>)
       /\ UNCHANGED <<categories, catDoc, catTmp, last, thread, disk, settings>>

\* DELETE /api/links/{link_id}
delete_link(token, link_id) ==
    LET gate == verify_token(settings, token)
        r == LinkStore_delete(links, link_id)
    IN /\ IF gate # 0
          THEN /\ request' = Refused("delete_link", token, gate, GateDetail(gate), <<>>)
               /\ UNCHANGED <<links, linkDoc, linkTmp>>
          ELSE /\ LinksAssign(r)
               /\ request' = Refused("delete_link", token,
                                     IF r.error = "" THEN 200 ELSE StoreStatus(r.error),
                                     r.error, <<>>)
       /\ UNCHANGED <<categories, catDoc, catTmp, last, thread, disk, settings>>

----------------------------------------------------------------------------
(* SpecMedia: the media endpoints on a media root with files in it, with a *)
(* secret configured, on disks with and without symbolic links that lead   *)
(* out of the root                                                         *)

\* the secret of the deployments that have one
Secret == <<"s">>

WithSecret == [defined |-> TRUE, upload_token |-> Secret]

\* the X-Upload-Token headers of the requests: the secret, none
Headers == {Secret, None}

Photo == Name(<<"x">>, ".jpg")

Program == Name(<<"x">>, ".exe")

Shortcut == Name(<<"l">>, ".jpg")

Album == Name(<<"a">>, "")

\* a file and a directory next to the media root
Passwords == <<Name(<<"o">>, ".jpg")>>

Elsewhere == <<Name(<<"out">>, "")>>

\* the file system at the start: a photo in the root, a file and a directory
\* with a file outside it, and the symbolic links given
DiskWith(symlinks) ==
    [files |-> {Append(media_dir, Photo), Passwords, Append(Elsewhere, Photo)},
     dirs |-> {media_dir, Elsewhere},
     links |-> symlinks,
     locked |-> {},
     mtime |-> Stamped({Append(media_dir, Photo), Passwords,
                        Append(Elsewhere, Photo)}, Instant),
     utcoffset |-> 0]

\* no link; media/l.jpg -> /o.jpg; media/a -> /out; no link and a photo whose
\* unlink the file system refuses
Disks ==
    {DiskWith({}),
     [DiskWith({}) EXCEPT !.locked = {Append(media_dir, Photo)}],
     DiskWith({[at |-> Append(media_dir, Shortcut), to |-> Passwords]}),
     DiskWith({[at |-> Append(media_dir, Album), to |-> Elsewhere]})}

\* "x.jpg", "../o.jpg", "/o.jpg", "l.jpg", ".", "", "a/x.jpg", "x.exe"
PathInputsMedia ==
    {UserPath(FALSE, <<Photo>>),
     UserPath(FALSE, <<DotDot, Passwords[1]>>),
     UserPath(TRUE, Passwords),
     UserPath(FALSE, <<Shortcut>>),
     UserPath(FALSE, <<Dot>>),
     UserPath(FALSE, <<>>),
     UserPath(FALSE, <<Album, Photo>>),
     UserPath(FALSE, <<Program>>)}

\* the paths of a delete: those and "link:t1"
DeleteInputs == PathInputsMedia \cup {LinkPath("t1")}

\* the files of an upload: "x.jpg" of three contents, "x.exe", one without a
\* name, "../x.jpg" and "l.jpg"
UploadInputs ==
    {Upload(UserPath(FALSE, <<Photo>>), Small),
     Upload(UserPath(FALSE, <<Photo>>), Large),
     Upload(UserPath(FALSE, <<Photo>>), Broken),
     Upload(UserPath(FALSE, <<Program>>), Small),
     Upload(UserPath(FALSE, <<>>), Small),
     Upload(UserPath(FALSE, <<DotDot, Photo>>), Small),
     Upload(UserPath(FALSE, <<Shortcut>>), Small)}

\* the batches of one element of a set, and of one with the good one before
\* or after it
Batches(S, good) ==
    {<<e>> : e \in S} \cup {<<e, good>> : e \in S} \cup {<<good, e>> : e \in S}

\* the category "a" kept in the directory "a", and one link
InitMedia ==
    /\ categories = <<Category(<<"a">>, <<"a">>)>>
    /\ catDoc = Document(categories)
    /\ catTmp = NoFile
    /\ links = <<Link("t1", <<"e.com">>, Url(FALSE, "https", "e.com", "/a"),
                      <<"e.com">>, None, None, Instant)>>
    /\ linkDoc = Document(links)
    /\ linkTmp = NoFile
    /\ last = Call("init", "")
    /\ thread = [t \in Threads |-> Idle]
    /\ disk \in Disks
    /\ request = NoRequest
    /\ settings = WithSecret

MediaUpload ==
    \E token \in Headers, category \in {None, <<"a">>, <<"b">>},
       files \in Batches(UploadInputs, Upload(UserPath(FALSE, <<Photo>>), Small)) :
        upload_media(token, category, files)

MediaDelete == \E token \in Headers, path \in DeleteInputs : delete_media(token, path)

MediaDeleteBatch ==
    \E token \in Headers, payload \in Batches(DeleteInputs, UserPath(FALSE, <<Photo>>)) :
        delete_media_batch(token, payload)

MediaServe == \E media_path \in PathInputsMedia : serve_media(media_path)

NextMedia == MediaUpload \/ MediaDelete \/ MediaDeleteBatch \/ MediaServe

SpecMedia == InitMedia /\ [][NextMedia]_vars

----------------------------------------------------------------------------
(* SpecApi: every mutating endpoint, with and without the token header, on *)
(* servers with and without a secret                                       *)

\* settings with upload_token set to None
SecretNotConfigured == [defined |-> TRUE, upload_token |-> None]

\* the X-Upload-Token headers of the requests: none, the secret, another
Tokens == {None, Secret, <<"w">>}

InitApi ==
    /\ categories = <<>>
    /\ catDoc = Document(<<>>)
    /\ catTmp = NoFile
    /\ links = <<>>
    /\ linkDoc = NoFile
    /\ linkTmp = NoFile
    /\ last = Call("init", "")
    /\ thread = [t \in Threads |-> Idle]
    /\ disk = DiskWith({})
    /\ request = NoRequest
    /\ settings \in {NoUploadToken, SecretNotConfigured, WithSecret}

ApiUpload ==
    \E token \in Tokens :
        upload_media(token, None, <<Upload(UserPath(FALSE, <<Photo>>), Small)>>)

ApiDeleteMedia ==
    \E token \in Tokens, path \in {UserPath(FALSE, <<Photo>>), LinkPath("t1")} :
        delete_media(token, path)

ApiDeleteBatch ==
    \E token \in Tokens, path \in {UserPath(FALSE, <<Photo>>), LinkPath("t1")} :
        delete_media_batch(token, <<path>>)

ApiCreateCategory ==
    \E token \in Tokens, name \in {<<"a">>, <<"b">>} : create_category(token, name, None)

ApiDeleteCategory ==
    \E token \in Tokens, name \in {<<"a">>, <<"b">>} : delete_category(token, name)

ApiUpdateCategory ==
    \E token \in Tokens, name \in {<<"a">>, <<"b">>}, new_name \in {None, <<"b">>} :
        update_category(token, name, new_name, None)

ApiCreateLink ==
    \E token \in Tokens, url \in PersistUrls :
        create_link(token, url, None, None, "t1", Instant)

ApiDeleteLink == \E token \in Tokens : delete_link(token, "t1")

NextApi ==
    \/ ApiUpload \/ ApiDeleteMedia \/ ApiDeleteBatch
    \/ ApiCreateCategory \/ ApiDeleteCategory \/ ApiUpdateCategory
    \/ ApiCreateLink \/ ApiDeleteLink

SpecApi == InitApi /\ [][NextApi]_vars

----------------------------------------------------------------------------
(* Properties of the stores *)

\* the errors CategoryStore and LinkStore raise on validation and lookup
ValidationErrors ==
    { "Invalid category name", "Invalid category path",
      "Invalid category name or path", "Category name already exists",
      "Category path already exists", "Category not found",
      "Provide a valid https URL", "Unknown category", "Link already added",
      "Link not found" }

NameTaken(cats, name) == \E i \in 1..Len(cats) : cats[i].name = name

PathTaken(cats, path) == \E i \in 1..Len(cats) : cats[i].path = path

\* C1: under add, update and delete calls executed one at a time, whether
\* they return or raise, no two categories share a name and no two share a
\* path.
C1_UniqueNamesAndPaths ==
    \A i, j \in 1..Len(categories) :
        i # j => /\ categories[i].name # categories[j].name
                 /\ categories[i].path # categories[j].path

\* two categories are stored and the last call was an update that succeeded
C1_Witness ==
    /\ Len(categories) = 2
    /\ last = Call("CategoryStore.update", "")

\* what add(name, path) does on names and paths that normalise to something
AddOutcome(name, path) ==
    LET n == normalize_category(name)
        q == normalize_category(IF Truthy(path) THEN path ELSE name)
    IN (n # None /\ q # None) =>
           IF NameTaken(categories, n)
           THEN /\ last'.error = "Category name already exists"
                /\ categories' = categories
           ELSE IF PathTaken(categories, q)
           THEN /\ last'.error = "Category path already exists"
                /\ categories' = categories
           ELSE /\ last'.error = ""
                /\ categories' = Append(categories, Category(n, q))
                /\ catDoc' = Document(categories')

\* C10: add fails with "name already exists" when the normalised name is
\* stored, else with "path already exists" when the normalised path (the
\* normalised name when the path is omitted) is stored, and otherwise appends
\* the record of the normalised name and path at the end and persists it.
C10_AddDuplicateOrAppend ==
    [][last'.op = "CategoryStore.add" =>
           \A name \in MoreNameInputs, path \in PathInputs :
               CatAddCall(name, path, "ok") => AddOutcome(name, path)]_vars

\* two categories are stored and a third add collided with one on its path
C10_Witness ==
    /\ Len(categories) = 2
    /\ last = Call("CategoryStore.add", "Category path already exists")

\* C7: a call that raises a validation or lookup error leaves the lists in
\* memory and the backing documents as they were.
C7_ErrorsChangeNothing ==
    [][last'.error \in ValidationErrors =>
           /\ categories' = categories
           /\ catDoc' = catDoc
           /\ links' = links
           /\ linkDoc' = linkDoc]_vars

\* both stores hold records and the last call raised a validation error
C7_Witness ==
    /\ last.error \in ValidationErrors
    /\ categories # <<>>
    /\ links # <<>>

----------------------------------------------------------------------------
(* Properties of LinkStore.add *)

\* urlparse accepts the URL: an https scheme in either case and a host
ValidUrl(url) == url.scheme \in {"https", "HTTPS"} /\ url.netloc # ""

\* the URL as stored: stripped, its scheme in lower case, the rest as written
StoredUrl(url) == Url(FALSE, "https", url.netloc, url.path)

UrlStored(lnks, url) == \E i \in 1..Len(lnks) : lnks[i].url = StoredUrl(url)

\* the records the string names, by name or by path
Resolving(cats, normalized) ==
    {i \in 1..Len(cats) : cats[i].name = normalized \/ cats[i].path = normalized}

\* the link the call appended
Added == links'[Len(links')]

\* the step is an add of the URL under the category
LinkAddWith(url, category) ==
    \E name \in LinkNameInputs, token \in TokenHex :
        LinkAddCall(url, name, category, token, Instant, "ok")

\* the claim as stated: a supplied category naming no record is an error
C8_AsClaimed(url, category) ==
    LET n == normalize_category(category)
    IN (category # None /\ ValidUrl(url)) =>
           /\ last'.error = "" =>
                  /\ links' = Append(links, Added)
                  /\ \E i \in Resolving(categories, n) :
                         /\ Added.category = categories[i].name
                         /\ Added.category_path = categories[i].path
           /\ Resolving(categories, n) = {} =>
                  /\ last'.error = "Unknown category"
                  /\ links' = links

\* C8 as claimed: every supplied category string that resolves to no record
\* makes add fail with "Unknown category".
C8_EverySuppliedCategoryResolves ==
    [][last'.op = "LinkStore.add" =>
           \A url \in UrlInputs, category \in CategoryInputs :
               LinkAddWith(url, category) => C8_AsClaimed(url, category)]_vars

\* the claim for the strings that normalise to something; the others stand
\* for no category
C8_Amended(url, category) ==
    LET n == normalize_category(category)
    IN (category # None /\ ValidUrl(url)) =>
           /\ (n # None /\ last'.error = "") =>
                  /\ links' = Append(links, Added)
                  /\ \E i \in Resolving(categories, n) :
                         /\ Added.category = categories[i].name
                         /\ Added.category_path = categories[i].path
           /\ (n # None /\ Resolving(categories, n) = {}) =>
                  /\ last'.error = "Unknown category"
                  /\ links' = links
           /\ (n = None /\ last'.error = "") =>
                  /\ links' = Append(links, Added)
                  /\ Added.category = None
                  /\ Added.category_path = None
           /\ n = None => last'.error # "Unknown category"

\* C8 (amended): add with a supplied category that normalises to a non-empty
\* string succeeds only if it names a record by name or by path, the link
\* carrying that record's name and path, and fails with "Unknown category",
\* storing nothing, if it names none; a supplied category that normalises to
\* the empty string is taken for no category.
C8_NormalisedCategoryResolves ==
    [][last'.op = "LinkStore.add" =>
           \A url \in UrlInputs, category \in CategoryInputs :
               LinkAddWith(url, category) => C8_Amended(url, category)]_vars

\* a link was just added under the category a record names by its path
C8_Witness ==
    /\ last = Call("LinkStore.add", "")
    /\ links # <<>>
    /\ links[Len(links)].category # None
    /\ links[Len(links)].category # links[Len(links)].category_path

\* add with a category that the store resolves, or with none
CategoryResolves(category) ==
    LET n == normalize_category(category)
    IN n = None \/ Resolving(categories, n) # {}

UniqueUrls == \A i, j \in 1..Len(links) : i # j => links[i].url # links[j].url

C9_AddOutcome(url, category) ==
    /\ ~ValidUrl(url) =>
           /\ last'.error = "Provide a valid https URL"
           /\ links' = links
    /\ (ValidUrl(url) /\ CategoryResolves(category) /\ UrlStored(links, url)) =>
           /\ last'.error = "Link already added"
           /\ links' = links
    /\ (ValidUrl(url) /\ CategoryResolves(category) /\ ~UrlStored(links, url)) =>
           /\ last'.error = ""
           /\ links' = Append(links, Added)
           /\ Added.url = StoredUrl(url)

\* C9: under add and delete calls executed one at a time no two links share
\* a url: add rejects a URL that is not https or has no host, stores a valid
\* one once, and rejects it with "Link already added" while it is stored.
C9_UniqueUrl ==
    /\ []UniqueUrls
    /\ [][last'.op = "LinkStore.add" =>
              \A url \in UrlInputs, category \in CategoryInputs :
                  LinkAddWith(url, category) => C9_AddOutcome(url, category)]_vars

\* two links are stored and an add of a stored URL was just rejected
C9_Witness ==
    /\ Len(links) = 2
    /\ last = Call("LinkStore.add", "Link already added")


----------------------------------------------------------------------------
(* Properties of the calls step by step *)

\* C2: of two add calls running at once on one store, with the same
\* normalised name or path, or the same URL, at most one succeeds.
C2_ConcurrentAddsStayUnique ==
    LET a == thread["t1"]
        b == thread["t2"]
    IN (/\ a.pc = "done" /\ a.error = ""
        /\ b.pc = "done" /\ b.error = ""
        /\ a.store = b.store)
       => IF a.store = "cat"
          THEN a.rec.name # b.rec.name /\ a.rec.path # b.rec.path
          ELSE a.rec.url # b.rec.url

\* C3: at every step of a mutating call, also when another call runs on the
\* same store, the backing document a reader finds is a whole document, never
\* a partially written one.
C3_DocumentAlwaysWhole ==
    \A store \in {"cat", "link"} :
        Files(store).doc.exists => Files(store).doc.complete

\* C3 with one call at a time: at every step of the call, and after the
\* process died between two steps, the document is whole and holds the
\* records of before the call or the list the call left in memory.
C3_OneCallAtATime ==
    \A store \in {"cat", "link"} :
        LET doc == Files(store).doc
            th == thread[Writer]
        IN /\ doc.exists => doc.complete
           /\ (th.store = store /\ th.pc # "idle")
                  => doc \in {th.before, Document(Mem(store))}

\* the temporary file holds the new list and is about to be renamed over a
\* document that still holds the old one
C3_OneCallWitness ==
    /\ thread[Writer].pc = "replace"
    /\ thread[Writer].store = "cat"
    /\ catTmp = Document(categories)
    /\ catDoc # Document(categories)
    /\ catDoc.complete

----------------------------------------------------------------------------
(* Properties of the media endpoints *)

PathTraversal == "Path must be inside media directory"

\* the canonical location of item i of the request just served, on the disk
\* it was served on
Canonical(i) ==
    LET item == request'.items[i]
    IN IF request'.endpoint = "upload_media"
       THEN resolve(disk, resolve_from(disk, <<>>, request'.dir), item.filename)
       ELSE resolve(disk, media_dir, item)

\* the path item i of the request just served gives
Given(i) ==
    IF request'.endpoint = "upload_media" THEN request'.items[i].filename
    ELSE request'.items[i]

\* the items of the request just served that give a path: not the links, not
\* the empty ones
Located ==
    {i \in 1..Len(request'.items) :
        Given(i).prefix = "" /\ (Given(i).abs \/ Given(i).segs # <<>>)}

\* the message item i failed with, "" if it did not fail
Failure(i) ==
    IF request'.endpoint \in {"delete_media", "serve_media"}
    THEN IF request'.status \in {400, 404} THEN request'.detail ELSE ""
    ELSE IF request'.results = <<>> THEN request'.detail
    ELSE IF request'.results[i].status = "error" THEN request'.results[i].message
    ELSE ""

\* the files that are not strictly inside the media root
Outside(d) == d.files \ Stored(d)

GoodUpload(upload) ==
    /\ upload.filename = UserPath(FALSE, <<Photo>>)
    /\ upload.content = Small

\* C6: the response to an upload that reached the loop over the files holds
\* one outcome per file, and every good file in the batch is stored.
C6_OneOutcomePerFile ==
    (request.endpoint = "upload_media" /\ request.items # <<>>)
        => /\ Len(request.results) = Len(request.items)
           /\ \A i \in 1..Len(request.items) :
                 GoodUpload(request.items[i])
                     => /\ request.results[i].status = "success"
                        /\ request.results[i].path \in disk.files

----------------------------------------------------------------------------
(* Properties of the token gate *)

\* what the mutating endpoints change: the stores, their documents, the disk
Guarded == <<categories, catDoc, catTmp, links, linkDoc, linkTmp, disk>>

\* C4: a request changes files or store state only if a secret is configured
\* and the request's token header equals it.
C4_ChangesNeedTheSecret ==
    [][Guarded' # Guarded
          => /\ settings.defined
             /\ settings.upload_token # None
             /\ request'.token = settings.upload_token]_vars

----------------------------------------------------------------------------
(* Properties of update, of the upload targets and of the batch delete *)

\* what update(name, new_name, new_path) does, stated on the list before it
UpdateOutcome(name, new_name, new_path) ==
    LET n == normalize_category(name)
        found == {i \in 1..Len(categories) : categories[i].name = n}
        t == CHOOSE i \in found : TRUE
        cn == IF new_name = None THEN categories[t].name
              ELSE normalize_category(new_name)
        cp == IF new_path = None THEN categories[t].path
              ELSE normalize_category(new_path)
        others == (1..Len(categories)) \ {t}
        name_hit == \E i \in others : categories[i].name = cn
        path_hit == \E i \in others : categories[i].path = cp
    IN IF n = None \/ found = {}
       THEN last'.error = "Category not found" /\ categories' = categories
       ELSE IF cn = None \/ cp = None
       THEN last'.error = "Invalid category name or path" /\ categories' = categories
       ELSE IF name_hit \/ path_hit
       THEN /\ last'.error \in {"Category name already exists",
                                "Category path already exists"}
            /\ last'.error = "Category name already exists" => name_hit
            /\ last'.error = "Category path already exists" => path_hit
            /\ categories' = categories
            /\ catDoc' = catDoc
       ELSE /\ last'.error = ""
            /\ Len(categories') = Len(categories)
            /\ categories'[t] = Category(cn, cp)
            /\ \A i \in others : categories'[i] = categories[i]
            /\ catDoc' = Document(categories')

\* C11: update fails with NotFound when no category has the normalised name,
\* with InvalidName when a supplied replacement normalises to empty, with
\* DuplicateName or DuplicatePath exactly when the candidate name or path is
\* that of another record (the record's own name and path are no collision),
\* and otherwise rewrites the targeted record alone, at its index, the
\* unsupplied fields keeping their value.
C11_UpdateOutcome ==
    [][last'.op = "CategoryStore.update" =>
           \A name \in MoreNameInputs, new_name \in MoreNameInputs \cup {None},
              new_path \in PathInputs :
               CatUpdateCall(name, new_name, new_path, "ok")
                   => UpdateOutcome(name, new_name, new_path)]_vars

\* an update gave the second of three records a path that is not its name
C11_Witness ==
    /\ Len(categories) = 3
    /\ last = Call("CategoryStore.update", "")
    /\ categories[2].path # categories[2].name

\* the results of the upload just served that are successes
Successes == {i \in 1..Len(request'.results) : request'.results[i].status = "success"}

\* the locations taken when file i of the upload just served was processed:
\* what was on disk before the request and what the files before i stored
Taken(i) ==
    disk.files \cup disk.dirs
        \cup {request'.results[j].path : j \in {k \in Successes : k < i}}

\* C12: the path an upload is stored at is the first of name, stem_1 + suffix,
\* stem_2 + suffix, ... in the target directory that is not taken, so no
\* existing file is overwritten and two uploads of one name into one
\* directory are stored at distinct paths.
C12_FirstFreeName ==
    [][request'.endpoint = "upload_media" =>
           /\ disk.files \subseteq disk'.files
           /\ \A i \in Successes :
                 LET target_dir == resolve_from(disk, <<>>, request'.dir)
                     safe_name == PathName(request'.items[i].filename.segs)
                     stored == request'.results[i].path
                     nth(k) == Append(target_dir, with_counter(safe_name, k))
                 IN /\ stored \notin Taken(i)
                    /\ stored \in disk'.files
                    /\ \E k \in 0..(MaxStored + 1) :
                          /\ stored = nth(k)
                          /\ \A below \in 0..(k - 1) : nth(below) \in Taken(i)]_vars

\* two files named "x.jpg" in one upload were stored as "x.jpg" and "x_1.jpg"
C12_Witness ==
    /\ request.endpoint = "upload_media"
    /\ Len(request.results) = 2
    /\ request.results[1].path = Append(media_dir, Photo)
    /\ request.results[2].path = Append(media_dir, Name(<<"x", "_", "1">>, ".jpg"))

\* C13: a file whose size is over max_upload_bytes is reported as that file's
\* "File too large" error and leaves nothing behind: the files on disk after
\* the upload are those of before and the ones reported as stored.
C13_TooLargeLeavesNothing ==
    [][(request'.endpoint = "upload_media" /\ request'.results # <<>>) =>
           /\ disk'.files =
                  disk.files \cup {request'.results[i].path : i \in Successes}
           /\ \A i \in 1..Len(request'.items) :
                 LET upload == request'.items[i]
                 IN (/\ upload.filename.segs # <<>>
                     /\ is_allowed_file(upload.filename.segs)
                     /\ upload.content.readable
                     /\ upload.content.size > max_upload_bytes)
                        => /\ request'.results[i].status = "error"
                           /\ request'.results[i].message = "File too large"]_vars

\* an upload of a good file and one over the ceiling stored the first alone
C13_Witness ==
    /\ request.endpoint = "upload_media"
    /\ Len(request.results) = 2
    /\ request.items[2].content = Large
    /\ request.results[1].status = "success"
    /\ request.results[2].message = "File too large"
    /\ Cardinality(Stored(disk)) = 1

\* the results of the batch delete just served that are successes on files
Unlinked(i) ==
    {request'.results[j].path :
        j \in {k \in 1..(i - 1) : /\ request'.results[k].status = "success"
                                  /\ request'.items[k].prefix = ""}}

\* the paths of the batch delete just served: the items that are not links
Paths == {i \in 1..Len(request'.items) : request'.items[i].prefix = ""}

\* the batch delete just served returned results
BatchDeleted == request'.endpoint = "delete_media_batch" /\ request'.results # <<>>

\* C14 as claimed: each path given in a batch delete has its outcome, in
\* request order: PathTraversal when it resolves outside the media root, NotFound when
\* it resolves inside and names no existing file, success when it names an
\* existing file, which is deleted.
C14_OutsideMissingOrDeleted ==
    [][BatchDeleted =>
           /\ Len(request'.results) = Len(request'.items)
           /\ \A i \in Paths \cap Located :
                 LET at == resolve(disk, media_dir, request'.items[i])
                     result == request'.results[i]
                 IN IF ~relative_to_media_dir(at)
                    THEN result.status = "error" /\ result.message = PathTraversal
                    ELSE IF ~is_file(disk, at) \/ at \in Unlinked(i)
                    THEN result.status = "error" /\ result.message = "Media not found"
                    ELSE result.status = "success" /\ at \notin disk'.files]_vars

\* C14: each reference of a batch delete has its outcome, in request order:
\* "Path is required" when it is empty, PathTraversal when it resolves outside
\* the media root, DisallowedType when it resolves inside (or to the root)
\* and its name has no allowed extension, whether the file exists or not,
\* NotFound when the name is allowed and no such file exists, and success when
\* it names an existing media file, which is deleted (an error of its own
\* when the unlink fails); nothing else is deleted, and a batch with a success
\* and an error answers 207.
C14_OneOutcomePerPath ==
    [][BatchDeleted =>
           /\ Len(request'.results) = Len(request'.items)
           /\ disk'.files = disk.files \ Unlinked(Len(request'.items) + 1)
           /\ \A i \in Paths :
                 LET item == request'.items[i]
                     at == resolve(disk, media_dir, item)
                     result == request'.results[i]
                     failed(message, code) ==
                         /\ result.status = "error"
                         /\ result.message = message
                         /\ result.code = code
                 IN IF ~item.abs /\ item.segs = <<>>
                    THEN failed("Path is required", 400)
                    ELSE IF ~relative_to_media_dir(at)
                    THEN failed(PathTraversal, 400)
                    ELSE IF Lower(PathName(at).suffix) \notin allowed_extensions
                    THEN failed("File type not allowed", 400)
                    ELSE IF ~is_file(disk, at) \/ at \in Unlinked(i)
                    THEN failed("Media not found", 404)
                    ELSE IF at \in disk.locked
                    THEN failed("Failed to delete file", 500)
                    ELSE /\ result.status = "success"
                         /\ result.path = at
                         /\ at \notin disk'.files
           /\ (/\ \E i \in 1..Len(request'.results) :
                     request'.results[i].status = "success"
               /\ \E i \in 1..Len(request'.results) :
                     request'.results[i].status = "error")
                  => request'.status = 207]_vars

\* a batch delete of "x.jpg" and "x.exe" deleted the first, refused the second
\* for its type though no such file exists, and answered 207
C14_Witness ==
    /\ request.endpoint = "delete_media_batch"
    /\ request.items = <<UserPath(FALSE, <<Photo>>), UserPath(FALSE, <<Program>>)>>
    /\ request.results[1].status = "success"
    /\ request.results[2].message = "File type not allowed"
    /\ request.status = 207
    /\ Append(media_dir, Photo) \notin disk.files

\* the codes of the results of the last request
Codes == {request.results[i].code : i \in 1..Len(request.results)}

\* C15: the status of a batch delete response is 200 when every item
\* succeeded, 207 when some succeeded and some failed, 404 when every item
\* failed with code 404, and otherwise the lowest error code of the items.
C15_StatusFromOutcomes ==
    (request.endpoint = "delete_media_batch" /\ request.results # <<>>) =>
        LET succeeded == {i \in 1..Len(request.results) :
                             request.results[i].status = "success"}
            failed == (1..Len(request.results)) \ succeeded
        IN /\ failed = {} => request.status = 200
           /\ (succeeded # {} /\ failed # {}) => request.status = 207
           /\ (succeeded = {} /\ Codes = {404}) => request.status = 404
           /\ (succeeded = {} /\ Codes # {404})
                  => /\ request.status \in Codes
                     /\ \A code \in Codes : request.status <= code

\* a batch delete of a photo that cannot be unlinked and of a missing one
\* answered 404, the lower of 500 and 404
C15_Witness ==
    /\ request.endpoint = "delete_media_batch"
    /\ Codes = {404, 500}
    /\ request.status = 404

----------------------------------------------------------------------------
(* The listing *)

\* the pieces of the names under the media root, in the order of their text
Alphabet == <<".JPG", ".exe", ".jpg", ".mp4", "1", "2", "_", "a", "b", "l", "x">>

ord(piece) == CHOOSE i \in 1..Len(Alphabet) : Alphabet[i] = piece

\* the text of a name, piece by piece
Text(name) == name.stem \o (IF name.suffix = "" THEN <<>> ELSE <<name.suffix>>)

\* str.__lt__
RECURSIVE TextLess(_, _)
TextLess(s, t) ==
    IF t = <<>> THEN FALSE
    ELSE IF s = <<>> THEN TRUE
    ELSE IF Head(s) # Head(t) THEN ord(Head(s)) < ord(Head(t))
    ELSE TextLess(Tail(s), Tail(t))

\* Path.__lt__: part by part
RECURSIVE PathLess(_, _)
PathLess(p, q) ==
    IF q = <<>> THEN FALSE
    ELSE IF p = <<>> THEN TRUE
    ELSE IF Head(p) # Head(q) THEN TextLess(Text(Head(p)), Text(Head(q)))
    ELSE PathLess(Tail(p), Tail(q))

\* sorted(...) of directory entries, by their path
RECURSIVE sorted(_)
sorted(entries) ==
    IF entries = {} THEN <<>>
    ELSE LET first == CHOOSE e \in entries :
                          \A o \in entries \ {e} : PathLess(e.at, o.at)
         IN <<first>> \o sorted(entries \ {first})

\* settings.media_dir.rglob("*"): what lies under the media root, a symbolic
\* link counting as what it leads to; rglob descends into no linked directory
rglob(d) ==
    {[at |-> f, to |-> f] : f \in {g \in d.files : media_dir_in_parents(g)}}
      \cup {l \in d.links : media_dir_in_parents(l.at) /\ exists(d, l.to)}

\* datetime.fromtimestamp(t).isoformat(): the local time of the instant
fromtimestamp(d, t) == t + d.utcoffset

Item(path, category, category_path, modified, source) ==
    [path |-> path, category |-> category, category_path |-> category_path,
     modified |-> modified, source |-> source]

\* a label that is nothing for the files of a directory without a category
item_category_or_none(cats, category_path) ==
    LET category_meta == get_by_path(cats, category_path)
    IN IF category_meta # 0 THEN cats[category_meta].name ELSE None

\* the label of a file: the name of the category whose path is the file's
\* first directory, the name of the directory when there is none
item_category(cats, category_path) ==
    LET category_meta == get_by_path(cats, category_path)
    IN IF category_meta # 0 THEN cats[category_meta].name ELSE category_path

\* the first loop of list_media
RECURSIVE file_items(_, _, _, _)
file_items(d, cats, paths, filter_category) ==
    IF paths = <<>> THEN <<>>
    ELSE LET file_path == Head(paths)
             relative_path ==
                 SubSeq(file_path.at, Len(media_dir) + 1, Len(file_path.at))
             category_path ==
                 IF Len(relative_path) > 1 THEN Text(relative_path[1]) ELSE None
             label == item_category(cats, category_path)
             more == file_items(d, cats, Tail(paths), filter_category)
         IN IF ~is_file(d, file_path.to) \/ ~is_allowed_file(file_path.at)
            THEN more
            ELSE IF filter_category # None /\ filter_category # label
            THEN more
            ELSE <<Item(UserPath(FALSE, relative_path), label,
                        category_path, fromtimestamp(d, d.mtime[file_path.to]),
                        "file")>> \o more

\* the second loop of list_media
link_items(lnks, filter_category) ==
    LET shown == SelectSeq(lnks, LAMBDA link :
                     ~(filter_category # None /\ filter_category # link.category))
    IN [i \in 1..Len(shown) |->
           Item(LinkPath(shown[i].id), shown[i].category,
                shown[i].category_path, shown[i].added, "link")]

\* list.sort(key=..., reverse=True): the greatest key first, items of one key
\* in the order they had
RECURSIVE sort_reverse(_, _)
sort_reverse(items, keys) ==
    IF keys = {} THEN <<>>
    ELSE LET key == CHOOSE k \in keys : \A o \in keys : o <= k
         IN SelectSeq(items, LAMBDA item : item.modified = key)
              \o sort_reverse(items, keys \ {key})

\* a listing that takes no notice of the filter
list_media_unfiltered(d, cats, lnks, category) ==
    LET items == file_items(d, cats, sorted(rglob(d)), None) \o link_items(lnks, None)
    IN sort_reverse(items, {items[i].modified : i \in 1..Len(items)})

\* list_media: GET /api/media
list_media(d, cats, lnks, category) ==
    LET filter_category == normalize_category(category)
        items == file_items(d, cats, sorted(rglob(d)), filter_category)
                   \o link_items(lnks, filter_category)
    IN sort_reverse(items, {items[i].modified : i \in 1..Len(items)})

----------------------------------------------------------------------------
(* SpecList: the listing of a media root with files at its top and in two  *)
(* directories, written at different instants, with categories and links   *)
(* stored, and the deletion of categories between the listings             *)

Other == Name(<<"b">>, "")

\* the instants of the files and of the links
MaxInstant == 1

Instants == 0..MaxInstant

\* the local time of the machine against UTC: the same, ahead by more than
\* the instants are apart
UtcOffsets == {0, MaxInstant + 1}

\* "x.jpg", "a/x.jpg", "b/x.jpg"
ListedFiles ==
    {Append(media_dir, Photo), media_dir \o <<Album, Photo>>,
     media_dir \o <<Other, Photo>>}

\* those files, and "a/x.exe", each written at one of the instants, on
\* machines on UTC and ahead of it
ListDisks ==
    {[files |-> ListedFiles \cup {media_dir \o <<Album, Program>>},
      dirs |-> {media_dir, Append(media_dir, Album), Append(media_dir, Other)},
      links |-> {},
      locked |-> {},
      mtime |-> [f \in ListedFiles \cup {media_dir \o <<Album, Program>>} |->
                    IF f \in ListedFiles THEN stamps[f] ELSE Instant],
      utcoffset |-> offset] :
        stamps \in [ListedFiles -> Instants], offset \in UtcOffsets}

\* stores with no category, with "a" kept in the directory "a", with "b" kept
\* in the directory "a", with "a" and "b" each kept in the directory named as
\* the other
ListCategories ==
    {<<>>, <<Category(<<"a">>, <<"a">>)>>, <<Category(<<"b">>, <<"a">>)>>,
     <<Category(<<"a">>, <<"b">>), Category(<<"b">>, <<"a">>)>>}

\* no link, a link without a category, a link filed under "b" when the store
\* had that category
ListLinks ==
    {<<>>} \cup
    {LinkStore_add(<<>>, <<Category(<<"b">>, <<"a">>)>>,
                   Url(FALSE, "https", "e.com", "/a"), None, category, "t1",
                   added).links :
        category \in {None, <<"b">>}, added \in Instants}

\* the category parameters of the requests: none, "a", "b", " b", "!", ""
Filters == {None, <<"a">>, <<"b">>, <<" ", "b">>, <<"!">>, <<>>}

InitList ==
    /\ categories \in ListCategories
    /\ catDoc = Document(categories)
    /\ catTmp = NoFile
    /\ links \in ListLinks
    /\ linkDoc = Document(links)
    /\ linkTmp = NoFile
    /\ last = Call("init", "")
    /\ thread = [t \in Threads |-> Idle]
    /\ disk \in ListDisks
    /\ request = NoRequest
    /\ settings = NoUploadToken

\* GET /api/media?category=...
ListMedia ==
    \E category \in Filters :
        /\ request' = Response("list_media", None, 200, "", <<category>>,
                               list_media(disk, categories, links, category),
                               {}, <<>>)
        /\ UNCHANGED <<categories, catDoc, catTmp, links, linkDoc, linkTmp, last,
                       thread, disk, settings>>

ListDeleteCategory == \E name \in {<<"a">>, <<"b">>} : delete_category(None, name)

NextList == ListMedia \/ ListDeleteCategory

SpecList == InitList /\ [][NextList]_vars

----------------------------------------------------------------------------
(* Properties of the listing *)

\* what a listing without a filter returns
Everything == list_media(disk, categories, links, None)

\* the items of a listing that carry the label given, in their order
Labelled(items, label) == SelectSeq(items, LAMBDA item : item.category = label)

\* C16 as claimed: whenever a category parameter is given to the listing, the
\* items returned are those whose label equals the normalised parameter, and
\* every other item is dropped
C16_GivenFilterDropsTheRest ==
    (request.endpoint = "list_media" /\ request.items[1] # None)
        => /\ request.status = 200
           /\ request.results =
                  Labelled(Everything, normalize_category(request.items[1]))

\* C16: a listing never fails; when the category parameter normalises to a
\* label, the items returned are those of the unfiltered listing whose label
\* equals it, in their order, none when no label equals it; when the parameter
\* is absent or normalises to nothing (as "" and "!" do), every item is
\* returned
C16_FilterByNormalisedLabel ==
    request.endpoint = "list_media"
        => LET filter_category == normalize_category(request.items[1])
           IN /\ request.status = 200
              /\ request.results =
                     IF filter_category = None THEN Everything
                     ELSE Labelled(Everything, filter_category)

\* a listing filtered by " b" returned a file and a link and dropped others
C16_Witness ==
    /\ request.endpoint = "list_media"
    /\ request.items[1] = <<" ", "b">>
    /\ \E i, j \in 1..Len(request.results) :
           /\ request.results[i].source = "file"
           /\ request.results[j].source = "link"
    /\ Len(request.results) < Len(Everything)

----------------------------------------------------------------------------
(* Properties of the stores against their documents *)

\* C17: after every completed call on a store, whether it returned or raised,
\* a failure of the input/output of _persist included, the store loaded again
\* from its document holds the records of the store in memory, in their order
C17_ReloadEqualsMemory ==
    /\ Loaded(catDoc) = categories
    /\ Loaded(linkDoc) = links

----------------------------------------------------------------------------
(* SpecNormalize: normalize_category applied to a string, then to what it  *)
(* returned                                                                *)

\* the length of the strings tried
MaxLen == 3

\* a space, a character that is dropped, the two signs kept, two letters
Chars == {" ", "!", "-", "_", "a", "b"}

MyTrip == <<"M", "y", " ", "T", "r", "i", "p", "!">>

\* None, every string over Chars up to the length, and "My Trip!"
Strings == {None, MyTrip} \cup UNION {[1..n -> Chars] : n \in 0..MaxLen}

InitNormalize ==
    /\ categories = <<>>
    /\ catDoc = Document(<<>>)
    /\ catTmp = NoFile
    /\ links = <<>>
    /\ linkDoc = NoFile
    /\ linkTmp = NoFile
    /\ last = Call("init", "")
    /\ thread = [t \in Threads |-> Idle]
    /\ disk = EmptyDisk
    /\ \E category \in Strings :
           request = [NoRequest EXCEPT !.endpoint = "normalize_category",
                                       !.items = <<category>>]
    /\ settings = NoUploadToken

\* settings.normalize_category of the string, then of its result
Normalize ==
    /\ request.endpoint = "normalize_category"
    /\ Len(request.results) < 2
    /\ request' =
           [request EXCEPT !.results =
               Append(@, normalize_category(IF @ = <<>> THEN request.items[1]
                                            ELSE @[Len(@)]))]
    /\ UNCHANGED <<categories, catDoc, catTmp, links, linkDoc, linkTmp, last,
                   thread, disk, settings>>

SpecNormalize == InitNormalize /\ [][Normalize]_vars

\* C18: normalising a normalised string gives it back; the result is None
\* when nothing is left of the input and otherwise holds only alphanumerics,
\* "-" and "_"; "My Trip!" gives "My_Trip"
C18_NormaliseIdempotent ==
    request.endpoint = "normalize_category"
        => LET category == request.items[1]
               normalized == request.results
           IN /\ Len(normalized) >= 1 =>
                     /\ normalized[1] # <<>>
                     /\ normalized[1] # None =>
                            \A i \in 1..Len(normalized[1]) :
                                \/ IsAlnum(normalized[1][i])
                                \/ normalized[1][i] \in {"-", "_"}
                     /\ category = MyTrip =>
                            normalized[1] = <<"M", "y", "_", "T", "r", "i", "p">>
              /\ Len(normalized) = 2 => normalized[2] = normalized[1]

\* "My Trip!" was normalised twice
C18_Witness ==
    /\ request.endpoint = "normalize_category"
    /\ request.items[1] = MyTrip
    /\ request.results = <<<<"M", "y", "_", "T", "r", "i", "p">>,
                           <<"M", "y", "_", "T", "r", "i", "p">>>>

----------------------------------------------------------------------------
(* Properties of the deletion of a category *)

\* the record a step took out of the category store
Gone ==
    {categories[i] : i \in 1..Len(categories)}
      \ {categories'[i] : i \in 1..Len(categories')}

\* the step is a DELETE /api/categories/{name} that succeeded
CategoryDeleted ==
    /\ request'.endpoint = "delete_category"
    /\ request'.status = 200

\* the positions, in a listing, of the files under the directory of a record
Under(items, category) ==
    {i \in 1..Len(items) :
        /\ items[i].source = "file"
        /\ normalize_category(items[i].category_path) = category.path}

\* C19 as claimed: after a category is deleted no file has moved, the files
\* under its directory are still listed, none of them carries its name as
\* label and a listing filtered by its name returns none of them
C19_FilesLoseTheLabel ==
    [][CategoryDeleted =>
          \A category \in Gone :
              LET before == list_media(disk, categories, links, None)
                  after == list_media(disk', categories', links', None)
                  named == list_media(disk', categories', links', category.name)
              IN /\ disk' = disk
                 /\ \A i \in Under(before, category) :
                        /\ \E j \in 1..Len(after) : after[j].path = before[i].path
                        /\ \A j \in 1..Len(after) :
                               after[j].path = before[i].path
                                   => after[j].category # category.name
                        /\ \A j \in 1..Len(named) :
                               named[j].path # before[i].path]_vars

\* C19: after a category is deleted no file has moved and the listing holds
\* the items it held, in their order; the files under the category's
\* directory are labelled with the name of the directory in place of the
\* name of the category, every other item keeps its label; a listing filtered
\* by the deleted name returns those files exactly when the directory is
\* named as the category was
C19_FilesTakeTheDirectoryName ==
    [][CategoryDeleted =>
          \A category \in Gone :
              LET before == list_media(disk, categories, links, None)
                  after == list_media(disk', categories', links', None)
                  named == list_media(disk', categories', links', category.name)
              IN /\ disk' = disk
                 /\ Len(after) = Len(before)
                 /\ \A i \in 1..Len(before) :
                        /\ after[i].path = before[i].path
                        /\ after[i].category_path = before[i].category_path
                        /\ after[i].category =
                               IF i \in Under(before, category)
                               THEN before[i].category_path
                               ELSE before[i].category
                 /\ \A i \in Under(before, category) :
                        (\E j \in 1..Len(named) : named[j].path = before[i].path)
                            <=> before[i].category_path = category.name]_vars

\* the category "a" kept in the directory "a" was deleted, and the file in
\* that directory is still listed under the label "a"
C19_Witness ==
    /\ request.endpoint = "delete_category"
    /\ request.status = 200
    /\ categories = <<>>
    /\ \E i \in 1..Len(Everything) :
           /\ Everything[i].path = UserPath(FALSE, <<Album, Photo>>)
           /\ Everything[i].category = <<"a">>

----------------------------------------------------------------------------
(* Properties of the status of an upload *)

\* the response is that of an upload that went through its files
Uploaded(r) == r.endpoint = "upload_media" /\ r.results # <<>>

\* which of the three outcomes a batch had
BatchOutcome(r) ==
    IF \A i \in 1..Len(r.results) : r.results[i].status = "success"
    THEN "all succeeded"
    ELSE IF \A i \in 1..Len(r.results) : r.results[i].status = "error"
    THEN "all failed"
    ELSE "some failed"

\* C20: two uploads with different outcomes among "all succeeded", "some
\* failed" and "all failed" are answered with different statuses
C20_StatusTellsTheOutcome ==
    [][(/\ Uploaded(request)
        /\ Uploaded(request')
        /\ BatchOutcome(request) # BatchOutcome(request'))
           => request.status # request'.status]_vars

----------------------------------------------------------------------------
(* Properties of the order of the listing *)

\* the instant at which the file of an item was last written, or at which its
\* link was added
InstantOf(item) ==
    IF item.source = "file"
    THEN disk.mtime[media_dir \o item.path.segs]
    ELSE LET index == CHOOSE i \in 1..Len(links) : links[i].id = item.path.id
         IN links[index].added

\* C21: of two items of a listing, files and links alike, the one written or
\* added at the later instant comes first
C21_MostRecentFirst ==
    request.endpoint = "list_media"
        => \A i, j \in 1..Len(request.results) :
               InstantOf(request.results[i]) > InstantOf(request.results[j])
                   => i < j

----------------------------------------------------------------------------
(* Properties of the stored links *)

\* the list without its element at a position
Without(lnks, position) ==
    [j \in 1..(Len(lnks) - 1) |-> IF j < position THEN lnks[j] ELSE lnks[j + 1]]

\* C22: no call on the category store changes the list of links; an add on
\* the link store leaves the list as it is or puts one link after the links
\* held, each of them as it was; a delete by an id leaves the list as it is
\* when no link has the id and otherwise takes out one link that has it, the
\* other links as they were and in their order
C22_LinksNeverMutated ==
    [][/\ last'.op \in {"CategoryStore.add", "CategoryStore.delete",
                        "CategoryStore.update"} => links' = links
       /\ last'.op = "LinkStore.add"
              => \/ links' = links
                 \/ /\ Len(links') = Len(links) + 1
                    /\ SubSeq(links', 1, Len(links)) = links
       /\ \A link_id \in TokenHex :
              (last'.op = "LinkStore.delete" /\ LinkDeleteCall(link_id, "ok"))
                  => IF \A i \in 1..Len(links) : links[i].id # link_id
                     THEN links' = links /\ last'.error = "Link not found"
                     ELSE \E i \in 1..Len(links) :
                              /\ links[i].id = link_id
                              /\ links' = Without(links, i)]_vars

\* a link keeps the label "a" after the category of that name was renamed or
\* deleted
C22_Witness ==
    /\ last.op \in {"CategoryStore.delete", "CategoryStore.update"}
    /\ last.error = ""
    /\ \E i \in 1..Len(links) :
           /\ links[i].category = <<"a">>
           /\ get_by_name(categories, <<"a">>) = 0

----------------------------------------------------------------------------
(* Properties of two _persist running at once *)

\* two calls on one store have both gone through their steps
BothFinished(store) ==
    \A t \in Threads : thread[t].pc = "done" /\ thread[t].store = store

\* C23: when two calls on one store overlap, neither ends with an error of
\* input/output, the document is whole at every step, and when both have
\* finished the document holds the list in memory
C23_OverlappingPersistsSucceed ==
    \A store \in {"cat", "link"} :
        /\ \A t \in Threads :
               thread[t].store = store => thread[t].error # "OSError"
        /\ Files(store).doc.exists => Files(store).doc.complete
        /\ BothFinished(store)
               => IF Files(store).doc.exists
                  THEN Files(store).doc = Document(Mem(store))
                  ELSE Mem(store) = <<>>

----------------------------------------------------------------------------
(* The category map of the settings and the store built from it *)

\* str.split(sep): the pieces between the separators
RECURSIVE Split(_, _)
Split(s, sep) ==
    LET cuts == {i \in 1..Len(s) : s[i] = sep}
        cut == FirstIndex(cuts)
    IN IF cut = 0 THEN <<s>>
       ELSE <<SubSeq(s, 1, cut - 1)>> \o Split(SubSeq(s, cut + 1, Len(s)), sep)

\* mapping[key] = value on a dict: a key held keeps its place
SetItem(mapping, key, value) ==
    LET held == FirstIndex({i \in 1..Len(mapping) : mapping[i].name = key})
    IN IF held = 0 THEN Append(mapping, Category(key, value))
       ELSE [mapping EXCEPT ![held] = Category(key, value)]

\* the loop of _load_categories over the entries
RECURSIVE load_entries(_, _)
load_entries(entries, mapping) ==
    IF entries = <<>> THEN mapping
    ELSE LET entry == Head(entries)
             colon == FirstIndex({i \in 1..Len(entry) : entry[i] = ":"})
             name == IF colon # 0 THEN SubSeq(entry, 1, colon - 1) ELSE entry
             path == IF colon # 0 THEN SubSeq(entry, colon + 1, Len(entry))
                     ELSE entry
             clean_name == normalize_category(name)
             clean_path == normalize_category(path)
         IN IF Strip(entry) = <<>> THEN load_entries(Tail(entries), mapping)
            ELSE IF clean_name = None \/ clean_path = None
            THEN load_entries(Tail(entries), mapping)
            ELSE load_entries(Tail(entries),
                              SetItem(mapping, clean_name, clean_path))

\* Settings._load_categories: the dict of the names and their paths, as the
\* list of its items
load_categories(raw) ==
    IF raw = None \/ raw = <<>> THEN <<>>
    ELSE load_entries(Split(raw, ","), <<>>)

\* CategoryStore._load: the list and the document after it
CategoryStore_load(doc, initial_map) ==
    IF doc.exists THEN [categories |-> doc.data, doc |-> doc]
    ELSE [categories |-> initial_map, doc |-> Document(initial_map)]

----------------------------------------------------------------------------
(* SpecSeed: the start of the process, with MEDIA_CATEGORIES set to a list *)
(* of entries or not set, with and without a document of categories       *)

\* the entries of MEDIA_CATEGORIES at most
MaxEntries == 3

\* "a", "b:a", "a:b", " b ", "a:!", ""
EntryInputs ==
    {<<"a">>, <<"b", ":", "a">>, <<"a", ":", "b">>, <<" ", "b", " ">>,
     <<"a", ":", "!">>, <<>>}

\* ",".join(entries)
RECURSIVE Join(_)
Join(entries) ==
    IF Len(entries) = 1 THEN entries[1]
    ELSE entries[1] \o <<",">> \o Join(Tail(entries))

\* the values of MEDIA_CATEGORIES: not set, the entries joined by commas
RawInputs ==
    {None} \cup {Join(entries) :
                    entries \in UNION {[1..n -> EntryInputs] : n \in 1..MaxEntries}}

\* the process is about to start
InitSeed ==
    /\ categories = <<>>
    /\ catDoc \in {NoFile, Document(<<Category(<<"a">>, <<"a">>)>>)}
    /\ catTmp = NoFile
    /\ links = <<>>
    /\ linkDoc = NoFile
    /\ linkTmp = NoFile
    /\ last = Call("start", "")
    /\ thread = [t \in Threads |-> Idle]
    /\ disk = EmptyDisk
    /\ \E raw \in RawInputs :
           request = [NoRequest EXCEPT !.endpoint = "MEDIA_CATEGORIES",
                                       !.items = <<raw>>]
    /\ settings = NoUploadToken

\* settings = Settings() and category_store = CategoryStore(...)
Construct ==
    LET category_map == load_categories(request.items[1])
        loaded == CategoryStore_load(catDoc, category_map)
    IN /\ last.op = "start"
       /\ categories' = loaded.categories
       /\ catDoc' = loaded.doc
       /\ last' = Call("init", "")
       /\ request' = [request EXCEPT
              !.detail = IF catDoc.exists THEN "loaded" ELSE "seeded"]
       /\ UNCHANGED <<catTmp, links, linkDoc, linkTmp, thread, disk, settings>>

SpecSeed == InitSeed /\ [][Construct]_vars

\* C24: the store seeded from the category map, when there is no document,
\* holds records with names different from each other, paths different from
\* each other, and every name and path a string that normalisation returns
\* as it is
C24_SeededStoreInvariants ==
    (last.op = "init" /\ request.detail = "seeded")
        => /\ \A i, j \in 1..Len(categories) :
                  i # j => /\ categories[i].name # categories[j].name
                           /\ categories[i].path # categories[j].path
           /\ \A i \in 1..Len(categories) :
                  /\ categories[i].name # None
                  /\ categories[i].path # None
                  /\ normalize_category(categories[i].name) = categories[i].name
                  /\ normalize_category(categories[i].path) = categories[i].path

====
